---- MODULE Spec2Model ----
(***************************************************************************)
(* A model of the Weir enforcer (haproxy filter flt_weir.c and the         *)
(* throttle table rate_limit.c).                                           *)
(*                                                                         *)
(* Conventions.                                                            *)
(*  - A khash map is a function whose DOMAIN is the set of present keys.   *)
(*  - A C string is a TLA+ string; the null pointer is NULL.               *)
(*  - A float is the pair <<numerator, denominator>> of the rational it    *)
(*    holds; only values exactly representable in binary are used.         *)
(*  - gettimeofday()/time() are inputs: every call draws a wall-clock      *)
(*    reading [sec, usec] from a small set, in any order, so the wall      *)
(*    clock may stand still, advance or move backward between calls.       *)
(*  - TLC's integers are 32-bit signed, so C's 32-bit unsigned arithmetic  *)
(*    is modelled modulo 2^UintBits, and the 64-bit ip_port key packs the  *)
(*    address with a 16-bit shift instead of a 32-bit one.                 *)
(***************************************************************************)
EXTENDS Integers, Sequences, FiniteSets, TLC

VARIABLES
    \* ---- rate_limit.c: the throttle table ----
    ip_port_key_hashmap,        \* ip_port -> user key
    key_ip_port_count_hashmap,  \* user key -> number of connections
    key_speed_epoch_hashmap,    \* direction -> (user key -> speed_hash_value_t)
    sweeper_dir,                \* remove_old_epochs: the direction of its next iteration
    throttle_call,              \* the last rl_speed_throttle call and what it returned
    \* ---- flt_weir.c: apply_bandwidth_limit on one freq_ctr ----
    bw_counter,                 \* the struct freq_ctr
    bw_now,                     \* global_now_ms
    bw_calls,                   \* number of apply_bandwidth_limit calls made
    bw_call,                    \* the last apply_bandwidth_limit call and what it returned
    \* ---- flt_weir.c: the enforcer ----
    now_ms,                     \* the host's millisecond tick
    user_limit_state,           \* conf->user_limit_state: user key -> struct user_limit
    next_cleanup_tick,          \* conf->next_cleanup_tick
    streams,                    \* stream -> struct weir_lim_state and the host's phase
    last_payload,               \* the last weir_http_payload call and what it returned
    emitted,                    \* the event lines the last weir_http_payload call logged
    last_sweep,                 \* the user-limit sweep of the last weir_enable_filter call
    last_enable,                \* the last weir_enable_filter call, where calls are recorded
    bug_on,                     \* the WEIR_BUG_ON that aborted the process, "" if none
    seen_ever,                  \* (user, direction) -> newest share ingested so far
    seen_since,                 \* the same, since the user's record was created
    \* ---- flt_weir.c: weir_http_payload's throttle branch, thread by thread ----
    payload_pc,                 \* stream -> where its thread is in the branch, and its locals
    throttle_log,               \* the weir-throttle event lines logged so far
    \* ---- syslog_server: msg_processor.cpp and the connection of redis_utils.cpp ----
    time_now,                   \* the reading m_time.now() gives, in ticks since the epoch
    m_qos_redis_commands,       \* RedisCmdKey as stored -> int
    m_qos_redis_active_reqs,    \* connection key -> int64_t
    m_connection_status,        \* RedisServerConnection::m_connection_status
    m_needs_reconnect,          \* RedisServerConnection::m_needs_reconnect
    m_last_redis_connect_time,
    m_last_redis_flush_time,
    m_qos_not_send_count,
    consumer_pc,                \* where messageConsumerThread is in its loop
    last_event,                 \* the message the consumer processed last, and how
    last_flush,                 \* the last sendToRedisQos call and what it submitted
    summed,                     \* (user, second, category) -> what the events held add up to
    gauged,                     \* connection key -> the last event that carried it
    key_call,                   \* the last comparison of two RedisCmdKey values
    \* ---- syslog_server: stringsplit.cpp ----
    split,                      \* a StringSplit object and what its next() calls returned
    \* ---- flt_weir.c: the "show weir limits" command ----
    dump,                       \* the slots of the user-limit table, show_lim_ctx, the output
    \* ---- syslog_server: syslog_server.cpp ----
    receiver,                   \* msgProducerThread, the message queue, the last datagram
    \* ---- syslog_server: the threads of a Processor and its destructor ----
    threads,                    \* where the two threads and ~Processor are, the stop requests
    \* ---- syslog_server: RedisServerConnection with its context and counters ----
    rsc,                        \* the members of a RedisServerConnection, the calls of its last operation
    net,                        \* the resolver and the transport, the watcher's place, the last operation
    \* ---- rate_limit.c and flt_weir.c: the tables, their locks and the threads ----
    mt                          \* the ip_port map's key string, the heap, the rwlocks, each thread's place

thrVars == <<ip_port_key_hashmap, key_ip_port_count_hashmap, key_speed_epoch_hashmap,
             sweeper_dir, throttle_call>>

bwVars == <<bw_counter, bw_now, bw_calls, bw_call>>

enfVars == <<now_ms, user_limit_state, next_cleanup_tick, streams, last_payload,
             emitted, last_sweep, last_enable, bug_on, seen_ever, seen_since>>

elVars == <<payload_pc, throttle_log>>

procVars == <<time_now, m_qos_redis_commands, m_qos_redis_active_reqs, m_connection_status,
              m_needs_reconnect, m_last_redis_connect_time, m_last_redis_flush_time,
              m_qos_not_send_count, consumer_pc, last_event, last_flush, summed, gauged>>

aggVars == <<procVars, key_call>>

auxVars == <<split, dump, receiver, threads, rsc, net, mt>>

vars == <<thrVars, bwVars, enfVars, elVars, aggVars, auxVars>>

(***************************************************************************)
(* Bounds of the model                                                     *)
(***************************************************************************)
\* width, in bits, that stands for C's 32-bit unsigned int
UintBits == 8
\* set_ip_port_key is not called for a user that already has this many connections
MaxConns == 1

UintModulus == 2 ^ UintBits
UINT_MAX == UintModulus - 1
INT_MAX == (UintModulus \div 2) - 1

\* conversion of an integer to C's unsigned int
ToUint(x) == x % UintModulus

\* conversion of an unsigned int to C's int
ToInt(x) == IF ToUint(x) > INT_MAX THEN ToUint(x) - UintModulus ELSE ToUint(x)

MIN(a, b) == IF a < b THEN a ELSE b

MAX(a, b) == IF a > b THEN a ELSE b

NULL == "NULL"

Users == {"u1", "u2"}

RL_UPLOAD == "RL_UPLOAD"

RL_DOWNLOAD == "RL_DOWNLOAD"

DataDirection == {RL_UPLOAD, RL_DOWNLOAD}

RL_THROTTLE == "RL_THROTTLE"

RL_NO_THROTTLE == "RL_NO_THROTTLE"

\* khash operations
kh_exist(h, k) == k \in DOMAIN h

kh_put(h, k, v) == [x \in (DOMAIN h) \cup {k} |-> IF x = k THEN v ELSE h[x]]

kh_del(h, k) == [x \in (DOMAIN h) \ {k} |-> h[x]]

kh_init == [x \in {} |-> 0]

(***************************************************************************)
(* rate_limit.c                                                            *)
(***************************************************************************)
UNIT_USECS_IN_SEC == 1000000

UINT_USECS_IN_MILLISEC == 1000

SPEED_TABLE_STALE_POLICY_AGE_SEC == 120

BACKOFF_WINDOW_EPOCHS == 6

MIN_RUN_TIME_USEC == 50 * UINT_USECS_IN_MILLISEC

\* DIFF_RATIO_LOW_MARK_TO_JITTER = 1.5
DIFF_RATIO_LOW_MARK_TO_JITTER == <<3, 2>>

\* a struct sockaddr_in; NullAddr is the null pointer
NullAddr == [ip |-> 0, port |-> 0]

Addrs == {[ip |-> 1, port |-> 80], [ip |-> 2, port |-> 80]}

\* an ip text that inet_pton rejects
BadIp == -1

IpShift == 2 ^ 16

ip_port_from_sockaddr(addr_in) ==
    IF addr_in = NullAddr THEN 0 ELSE addr_in.ip * IpShift + addr_in.port

get_ip_port(ip, port) ==
    IF ip = BadIp THEN 0 ELSE ip * IpShift + port

\* float comparisons and arithmetic on <<num, den>> pairs (den > 0)
RatLess(a, b) == a[1] * b[2] < b[1] * a[2]

RatMax(a, b) == IF RatLess(a, b) THEN b ELSE a

RatZero == <<0, 1>>

\* (uint64_t)((double)x / r), for r > 0
DivByRatio(x, r) == (x * r[2]) \div r[1]

\* the zero-initialised speed_hash_value_t
ZeroPolicy ==
    [throttle |-> 0, num_active_connections |-> 0, received_epoch_sec |-> 0,
     diff_ratio |-> RatZero, elapsed_usec_in_the_epoch |-> 0,
     allowed_run_time_usec |-> 0, previous_diff_ratio |-> RatZero]

\* uint32_t policy_age = curr_sec - policy->received_epoch_sec (unsigned, wraps)
policy_age_epochs(policy, curr_sec) == ToUint(curr_sec - policy.received_epoch_sec)

is_valid_violation_policy(policy, curr_sec) ==
    policy_age_epochs(policy, curr_sec) <= BACKOFF_WINDOW_EPOCHS

\* 2^n as pow(2, n) computes it for the small non-negative n used
Pow2(n) == 2 ^ n

\* compute_allowed_run_time without the MIN_RUN_TIME_USEC floor
compute_allowed_run_time_nofloor(policy, curr_sec) ==
    LET policy_age == policy_age_epochs(policy, curr_sec)
        allowed == DivByRatio(policy.elapsed_usec_in_the_epoch, policy.diff_ratio)
    IN  IF policy_age = 0
        THEN [policy EXCEPT !.allowed_run_time_usec = 0]
        ELSE IF policy_age <= BACKOFF_WINDOW_EPOCHS
        THEN [policy EXCEPT !.allowed_run_time_usec =
                                MIN(allowed * Pow2(policy_age - 1), UNIT_USECS_IN_SEC)]
        ELSE [policy EXCEPT !.allowed_run_time_usec = UNIT_USECS_IN_SEC]

\* compute_allowed_run_time doubling once too often: pow(2, policy_age)
compute_allowed_run_time_pow(policy, curr_sec) ==
    LET policy_age == policy_age_epochs(policy, curr_sec)
        allowed0 == DivByRatio(policy.elapsed_usec_in_the_epoch, policy.diff_ratio)
        allowed == MAX(MIN_RUN_TIME_USEC, allowed0)
    IN  IF policy_age = 0
        THEN [policy EXCEPT !.allowed_run_time_usec = 0]
        ELSE IF policy_age <= BACKOFF_WINDOW_EPOCHS
        THEN [policy EXCEPT !.allowed_run_time_usec =
                                MIN(allowed * Pow2(policy_age), UNIT_USECS_IN_SEC)]
        ELSE [policy EXCEPT !.allowed_run_time_usec = UNIT_USECS_IN_SEC]

compute_allowed_run_time(policy, curr_sec) ==
    LET policy_age == policy_age_epochs(policy, curr_sec)
        allowed0 == DivByRatio(policy.elapsed_usec_in_the_epoch, policy.diff_ratio)
        allowed == MAX(MIN_RUN_TIME_USEC, allowed0)
    IN  IF policy_age = 0
        THEN [policy EXCEPT !.allowed_run_time_usec = 0]
        ELSE IF policy_age <= BACKOFF_WINDOW_EPOCHS
        THEN [policy EXCEPT !.allowed_run_time_usec =
                                MIN(allowed * Pow2(policy_age - 1), UNIT_USECS_IN_SEC)]
        ELSE [policy EXCEPT !.allowed_run_time_usec = UNIT_USECS_IN_SEC]

get_key_from_ip_port(map, ip_port) ==
    IF kh_exist(map, ip_port) THEN map[ip_port] ELSE NULL

get_ip_port_count_from_key(counts, access_key) ==
    IF kh_exist(counts, access_key) THEN counts[access_key] ELSE 0

get_key_speed_hash(tables, data_direction) == tables[data_direction]

\* get_epoch_sec flagging every policy it finds, valid or not
get_epoch_sec_novalid(map, counts, tables, ip_port, data_direction, curr_sec) ==
    LET access_key == get_key_from_ip_port(map, ip_port)
        hash == get_key_speed_hash(tables, data_direction)
    IN  IF access_key = NULL \/ access_key = ""
        THEN [access_key |-> access_key, found |-> ZeroPolicy]
        ELSE IF ~kh_exist(hash, access_key)
        THEN [access_key |-> access_key, found |-> ZeroPolicy]
        ELSE IF is_valid_violation_policy(hash[access_key], curr_sec)
        THEN [access_key |-> access_key,
              found |-> compute_allowed_run_time(
                            [hash[access_key] EXCEPT !.throttle = 1], curr_sec)]
        ELSE [access_key |-> access_key,
              found |-> [hash[access_key] EXCEPT !.throttle = 1]]

\* returns [access_key, found]
get_epoch_sec(map, counts, tables, ip_port, data_direction, curr_sec) ==
    LET access_key == get_key_from_ip_port(map, ip_port)
        hash == get_key_speed_hash(tables, data_direction)
    IN  IF access_key = NULL \/ access_key = ""
        THEN [access_key |-> access_key, found |-> ZeroPolicy]
        ELSE IF ~kh_exist(hash, access_key)
        THEN [access_key |-> access_key, found |-> ZeroPolicy]
        ELSE IF is_valid_violation_policy(hash[access_key], curr_sec)
        THEN [access_key |-> access_key,
              found |-> compute_allowed_run_time(
                            [hash[access_key] EXCEPT
                                !.throttle = 1,
                                !.num_active_connections =
                                    get_ip_port_count_from_key(counts, access_key)],
                            curr_sec)]
        ELSE [access_key |-> access_key,
              found |-> [hash[access_key] EXCEPT !.throttle = 0]]

\* whether get_jitter_usec may return a non-zero sleep
get_jitter_usec(policy) ==
    \/ ~RatLess(RatMax(policy.previous_diff_ratio, policy.diff_ratio),
                DIFF_RATIO_LOW_MARK_TO_JITTER)
    \/ RatLess(policy.previous_diff_ratio, policy.diff_ratio)

\* rl_speed_throttle comparing with <= instead of <
rl_speed_throttle_le(map, counts, tables, addr_in, data_direction, current_epoch) ==
    IF addr_in = NullAddr
    THEN [result |-> RL_NO_THROTTLE, access_key |-> NULL, found |-> ZeroPolicy,
          jitter |-> FALSE]
    ELSE LET r == get_epoch_sec(map, counts, tables, ip_port_from_sockaddr(addr_in),
                                data_direction, current_epoch.sec)
         IN  IF r.found.throttle = 0
             THEN [result |-> RL_NO_THROTTLE, access_key |-> r.access_key,
                   found |-> r.found, jitter |-> FALSE]
             ELSE IF current_epoch.usec <= r.found.allowed_run_time_usec
             THEN [result |-> RL_NO_THROTTLE, access_key |-> r.access_key,
                   found |-> r.found, jitter |-> get_jitter_usec(r.found)]
             ELSE [result |-> RL_THROTTLE, access_key |-> r.access_key,
                   found |-> r.found, jitter |-> FALSE]

\* returns [result, access_key, found, jitter]
rl_speed_throttle(map, counts, tables, addr_in, data_direction, current_epoch) ==
    IF addr_in = NullAddr
    THEN [result |-> RL_NO_THROTTLE, access_key |-> NULL, found |-> ZeroPolicy,
          jitter |-> FALSE]
    ELSE LET r == get_epoch_sec(map, counts, tables, ip_port_from_sockaddr(addr_in),
                                data_direction, current_epoch.sec)
         IN  IF r.found.throttle = 0
             THEN [result |-> RL_NO_THROTTLE, access_key |-> r.access_key,
                   found |-> r.found, jitter |-> FALSE]
             ELSE IF current_epoch.usec < r.found.allowed_run_time_usec
             THEN [result |-> RL_NO_THROTTLE, access_key |-> r.access_key,
                   found |-> r.found, jitter |-> get_jitter_usec(r.found)]
             ELSE [result |-> RL_THROTTLE, access_key |-> r.access_key,
                   found |-> r.found, jitter |-> FALSE]

incr_num_connections_of_a_key(counts, key) ==
    IF ~kh_exist(counts, key)
    THEN kh_put(counts, key, 1)
    ELSE kh_put(counts, key, ToUint(counts[key] + 1))

decr_num_connections_of_a_key(counts, key) ==
    IF ~kh_exist(counts, key) THEN counts
    ELSE IF counts[key] = 0 THEN counts
    ELSE IF counts[key] = 1 THEN kh_del(counts, key)
    ELSE kh_put(counts, key, counts[key] - 1)

NoCall ==
    [called |-> FALSE, addr |-> NullAddr, dir |-> RL_DOWNLOAD,
     now |-> [sec |-> 0, usec |-> 0], access_key |-> NULL, found |-> ZeroPolicy,
     jitter |-> FALSE, result |-> RL_NO_THROTTLE]

\* void set_ip_port_key(const char* ip, const char* port, const char* key)
set_ip_port_key(ip, port, key) ==
    LET ip_port == get_ip_port(ip, port)
    IN  /\ IF key = NULL \/ key = "" \/ ip_port = 0
           THEN UNCHANGED <<ip_port_key_hashmap, key_ip_port_count_hashmap>>
           ELSE /\ ip_port_key_hashmap' = kh_put(ip_port_key_hashmap, ip_port, key)
                /\ key_ip_port_count_hashmap' =
                       incr_num_connections_of_a_key(key_ip_port_count_hashmap, key)
        /\ throttle_call' = NoCall
        /\ UNCHANGED <<key_speed_epoch_hashmap, sweeper_dir>>

\* the new ip_port map and connection counts after remove_from_ip_port_key_hash
remove_from_ip_port_key_hash(map, counts, ip_port) ==
    IF kh_exist(map, ip_port)
    THEN [map |-> kh_del(map, ip_port),
          counts |-> decr_num_connections_of_a_key(counts, map[ip_port])]
    ELSE [map |-> map, counts |-> counts]

\* the new ip_port map and connection counts after rl_request_end
rl_request_end(map, counts, addr_in) ==
    IF addr_in = NullAddr
    THEN [map |-> map, counts |-> counts]
    ELSE remove_from_ip_port_key_hash(map, counts, ip_port_from_sockaddr(addr_in))

\* void rl_request_end(struct sockaddr_in* addr_in), called on its own
RequestEnd(addr_in) ==
    LET r == rl_request_end(ip_port_key_hashmap, key_ip_port_count_hashmap, addr_in)
    IN  /\ ip_port_key_hashmap' = r.map
        /\ key_ip_port_count_hashmap' = r.counts
        /\ throttle_call' = NoCall
        /\ UNCHANGED <<key_speed_epoch_hashmap, sweeper_dir>>

\* void set_throttle_epoch_us(key, epoch_us, data_direction, diff_ratio)
set_throttle_epoch_us(key, epoch_us, data_direction, diff_ratio, current_epoch) ==
    LET hash == get_key_speed_hash(key_speed_epoch_hashmap, data_direction)
        value == [throttle |-> current_epoch.sec,
                  num_active_connections |-> 0,
                  received_epoch_sec |-> current_epoch.sec,
                  diff_ratio |-> diff_ratio,
                  elapsed_usec_in_the_epoch |-> epoch_us % UNIT_USECS_IN_SEC,
                  allowed_run_time_usec |-> 0,
                  previous_diff_ratio |-> RatZero]
    IN  /\ IF key = NULL \/ key = ""
           THEN UNCHANGED key_speed_epoch_hashmap
           ELSE IF kh_exist(hash, key)
           THEN key_speed_epoch_hashmap' =
                    [key_speed_epoch_hashmap EXCEPT ![data_direction] =
                        kh_put(hash, key,
                               [value EXCEPT !.previous_diff_ratio = hash[key].diff_ratio])]
           ELSE key_speed_epoch_hashmap' =
                    [key_speed_epoch_hashmap EXCEPT ![data_direction] =
                        kh_put(hash, key, value)]
        /\ throttle_call' = NoCall
        /\ UNCHANGED <<ip_port_key_hashmap, key_ip_port_count_hashmap, sweeper_dir>>

\* the policies of a table that one iteration of remove_old_epochs keeps
remove_old_epochs(hash, current_epoch_sec) ==
    LET stale(k) == /\ current_epoch_sec > hash[k].received_epoch_sec
                    /\ current_epoch_sec - hash[k].received_epoch_sec >
                           SPEED_TABLE_STALE_POLICY_AGE_SEC
    IN  [k \in {x \in DOMAIN hash : ~stale(x)} |-> hash[k]]

\* one iteration of the loop of the remove_old_epochs thread
RemoveOldEpochs(current_epoch) ==
    /\ key_speed_epoch_hashmap' =
           [key_speed_epoch_hashmap EXCEPT ![sweeper_dir] =
               remove_old_epochs(key_speed_epoch_hashmap[sweeper_dir], current_epoch.sec)]
    /\ sweeper_dir' = IF sweeper_dir = RL_DOWNLOAD THEN RL_UPLOAD ELSE RL_DOWNLOAD
    /\ throttle_call' = NoCall
    /\ UNCHANGED <<ip_port_key_hashmap, key_ip_port_count_hashmap>>

\* int rl_speed_throttle(addr_in, data_direction), called on its own
SpeedThrottle(addr_in, data_direction, current_epoch) ==
    LET r == rl_speed_throttle(ip_port_key_hashmap, key_ip_port_count_hashmap,
                               key_speed_epoch_hashmap, addr_in, data_direction,
                               current_epoch)
    IN  /\ throttle_call' =
               [called |-> TRUE, addr |-> addr_in, dir |-> data_direction,
                now |-> current_epoch, access_key |-> r.access_key,
                found |-> r.found, jitter |-> r.jitter, result |-> r.result]
        /\ UNCHANGED <<ip_port_key_hashmap, key_ip_port_count_hashmap,
                       key_speed_epoch_hashmap, sweeper_dir>>

(***************************************************************************)
(* The host's frequency counter (haproxy's freq_ctr), a two-slot sliding   *)
(* window.  Byte counts are unsigned ints of UintBits bits; ticks are      *)
(* milliseconds and stay far below the point where a 32-bit tick wraps, so *)
(* tick differences and millisecond quotients are computed exactly.        *)
(***************************************************************************)
\* the zero-initialised struct freq_ctr of a fresh user_limit
ZeroCounter == [curr_tick |-> 0, curr_ctr |-> 0, prev_ctr |-> 0]

\* div64_32 on operands whose quotient fits the result
div64_32(a, b) == a \div b

\* events counted over the sliding window, times the period
freq_ctr_total(ctr, period, pend, now) ==
    LET remain == ctr.curr_tick + period - now
        past == IF remain < 0
                THEN (IF remain + period >= 0 THEN ctr.curr_ctr ELSE 0)
                ELSE ctr.prev_ctr
        curr == IF remain < 0 THEN 0 ELSE ctr.curr_ctr
        left == IF remain < 0 THEN remain + period ELSE remain
    IN  past * left + (curr + pend) * period

\* bytes over the limit in the current period, 0 or less when there are none
freq_ctr_overshoot_period(ctr, period, freq, now) ==
    LET elapsed == now - ctr.curr_tick
    IN  IF ctr.curr_ctr = 0 /\ ctr.curr_tick = 0 THEN 0
        ELSE IF elapsed < 0 \/ elapsed > period THEN 0
        ELSE ToInt(ctr.curr_ctr - ToUint(div64_32(elapsed * freq, period)))

\* bytes that may still be admitted in the window without crossing freq
freq_ctr_remain_period(ctr, period, freq, pend, now) ==
    LET avg == ToUint(div64_32(freq_ctr_total(ctr, period, pend, now), period))
    IN  freq - MIN(avg, freq)

\* the counter after admitting inc bytes, rotating the slots as time passes
update_freq_ctr_period(ctr, period, inc, now) ==
    IF now - ctr.curr_tick < period
    THEN [ctr EXCEPT !.curr_ctr = ToUint(@ + inc)]
    ELSE IF now - (ctr.curr_tick + period) >= period
    THEN [curr_tick |-> now - (now % 2), curr_ctr |-> inc, prev_ctr |-> 0]
    ELSE [curr_tick |-> ctr.curr_tick + period, curr_ctr |-> inc,
          prev_ctr |-> ctr.curr_ctr]

\* milliseconds until the window admits more
next_event_delay_period(ctr, period, freq, pend, now) ==
    LET total == freq_ctr_total(ctr, period, pend, now)
        limit == freq * period
    IN  IF total < limit THEN 0
        ELSE MAX(div64_32(total - limit, IF freq # 0 THEN freq ELSE 1), 1)

(***************************************************************************)
(* flt_weir.c: apply_bandwidth_limit                                       *)
(***************************************************************************)
period_ms == 1000

max_wait_ms == 2 * period_ms

\* returns [wait_ms, bytes_to_forward] and the counter it leaves behind;
\* limit and bytes_available are unsigned ints, requests is an int
apply_bandwidth_limit(counter, limit, requests, bytes_available, now) ==
    LET overshoot_bytes == freq_ctr_overshoot_period(counter, period_ms, limit, now)
        remain == freq_ctr_remain_period(counter, period_ms, limit, 0, now)
        \* quota_bytes_remaining + requests - 1 is an unsigned int sum
        quota_bytes_remaining == div64_32(ToUint(remain + requests - 1), requests)
        \* MIN compares as unsigned ints, the result is stored in an int
        bytes_to_forward == ToInt(MIN(bytes_available, quota_bytes_remaining))
        updated == update_freq_ctr_period(counter, period_ms,
                                          ToUint(bytes_to_forward), now)
    IN  IF overshoot_bytes > 0
        THEN [wait_ms |-> IF limit > 0
                          THEN MIN(max_wait_ms,
                                   div64_32(overshoot_bytes * period_ms * requests, limit))
                          ELSE max_wait_ms,
              bytes_to_forward |-> 0,
              counter |-> counter]
        ELSE [wait_ms |-> IF ToUint(bytes_to_forward) < bytes_available
                          THEN MIN(max_wait_ms,
                                   next_event_delay_period(updated, period_ms, limit, 0, now))
                          ELSE 0,
              bytes_to_forward |-> bytes_to_forward,
              counter |-> updated]

NoBwCall ==
    [called |-> FALSE, before |-> ZeroCounter, limit |-> 0, requests |-> 1,
     bytes_available |-> 0, now |-> 0, wait_ms |-> 0, bytes_to_forward |-> 0]

\* one call of apply_bandwidth_limit on the counter
ApplyBandwidthLimit(limit, requests, bytes_available) ==
    LET r == apply_bandwidth_limit(bw_counter, limit, requests, bytes_available, bw_now)
    IN  /\ bw_counter' = r.counter
        /\ bw_call' = [called |-> TRUE, before |-> bw_counter, limit |-> limit,
                       requests |-> requests, bytes_available |-> bytes_available,
                       now |-> bw_now, wait_ms |-> r.wait_ms,
                       bytes_to_forward |-> r.bytes_to_forward]
        /\ bw_calls' = bw_calls + 1
        /\ UNCHANGED bw_now

\* the host's clock advances
AdvanceNowMs(step) ==
    /\ bw_now' = bw_now + step
    /\ bw_call' = NoBwCall
    /\ UNCHANGED <<bw_counter, bw_calls>>

BwInit ==
    /\ bw_counter = ZeroCounter
    /\ bw_now = 1
    /\ bw_calls = 0
    /\ bw_call = NoBwCall

(***************************************************************************)
(* flt_weir.c: the enforcer.  A handler (attach, enable, headers, payload, *)
(* detach, share ingest) is one step: each touches the user-limit table in *)
(* one critical section of state_lock, and a stream is handled by one      *)
(* thread at a time.  A stream's transaction (s->txn) always exists, as it *)
(* does for the HTTP streams the rules and callbacks run on.               *)
(***************************************************************************)
USERMAP_CLEANUP_INTERVAL_MS == 30000

USERMAP_CLEANUP_MIN_MS_SINCE_DISCONNECT == 5000

TICK_ETERNITY == 0

tick_isset(expire) == expire # TICK_ETERNITY

tick_add(now, timeout) ==
    IF now + timeout = TICK_ETERNITY THEN 1 ELSE now + timeout

tick_is_expired(timer, now) == tick_isset(timer) /\ timer - now <= 0

Streams == {"s1", "s2"}

\* the IPv4 source address of the connection of a stream
StreamAddr(s) == IF s = "s1" THEN [ip |-> 1, port |-> 80] ELSE [ip |-> 2, port |-> 80]

verb_direction(method) ==
    IF method = "PUT" \/ method = "POST" THEN RL_UPLOAD ELSE RL_DOWNLOAD

direction_name(direction) == IF direction = RL_UPLOAD THEN "up" ELSE "dwn"

\* conf->instance_id
InstanceId == "lb-1"

\* the zero-initialised struct user_direction_limit
ZeroDirectionLimit ==
    [limit_received |-> FALSE, limit_timestamp |-> 0, bytes_per_second |-> 0,
     counter |-> ZeroCounter, active_requests |-> 0, next_throttle_log_tick |-> 0]

\* pool_zalloc(pool_head_weir_user_limit): the struct user_limit at address ptr
ZeroUserLimit(ptr) ==
    [ptr |-> ptr, upload |-> ZeroDirectionLimit, download |-> ZeroDirectionLimit,
     last_request_end_tick |-> 0]

\* the address pool_zalloc returns: the lowest one not in use
pool_zalloc(table) ==
    LET used == {table[k].ptr : k \in DOMAIN table}
    IN  CHOOSE p \in 1..(Cardinality(used) + 1) :
            p \notin used /\ \A q \in 1..(p - 1) : q \in used

\* the direction record of a user_limit
DirectionLimit(user_limit, direction) ==
    IF direction = RL_DOWNLOAD THEN user_limit.download ELSE user_limit.upload

WithDirectionLimit(user_limit, direction, v) ==
    IF direction = RL_DOWNLOAD
    THEN [user_limit EXCEPT !.download = v]
    ELSE [user_limit EXCEPT !.upload = v]

\* the keys of the table whose record lies at address ptr
KeysAt(table, ptr) == {k \in DOMAIN table : table[k].ptr = ptr}

\* the zero-initialised struct weir_lim_state; phase is the host's: "none"
\* (no filter context), "req" (request rules run), "res" (the request headers
\* callback has run), "fwd" (the response headers callback has run)
NoStream ==
    [phase |-> "none", remote_addr |-> NullAddr, meth |-> "GET", limit |-> 0,
     limit_key |-> NULL, request_class |-> NULL, bandwidth_limit_direction |-> NULL,
     next_allowed_send_tick |-> TICK_ETERNITY, enabled |-> FALSE,
     headers_processed |-> FALSE, data_filter |-> FALSE]

NoPayload ==
    [called |-> FALSE, stream |-> "s1", direction |-> RL_DOWNLOAD, len |-> 0,
     limited |-> FALSE, throttle |-> RL_NO_THROTTLE, bytes_to_forward |-> 0]

\* no sweep ran: by is the stream whose enable ran it, removed the keys it freed
NoSweep == [ran |-> FALSE, by |-> "s1", removed |-> {}]

\* no weir_enable_filter call was made: s, key, request_class and direction are
\* the stream and the samples of the last call, enabled is what st->enabled was
\* when it was made
NoEnable == [s |-> NULL, key |-> NULL, request_class |-> NULL, direction |-> NULL, enabled |-> FALSE]

\* the ghost records no handler but its own sets
Quiet ==
    /\ last_payload' = NoPayload
    /\ emitted' = <<>>
    /\ last_sweep' = NoSweep
    /\ last_enable' = NoEnable

\* the user-limit sweep that waits one tick longer than the grace period
user_limit_cleanup_late(table, now) ==
    LET expired(k) ==
            /\ table[k].download.active_requests <= 0
            /\ table[k].upload.active_requests <= 0
            /\ tick_is_expired(tick_add(table[k].last_request_end_tick,
                                        USERMAP_CLEANUP_MIN_MS_SINCE_DISCONNECT + 1), now)
    IN  [k \in {x \in DOMAIN table : ~expired(x)} |-> table[k]]

\* the user-limit sweep sparing no record for its active requests
user_limit_cleanup_noactive(table, now) ==
    LET expired(k) ==
            tick_is_expired(tick_add(table[k].last_request_end_tick,
                                     USERMAP_CLEANUP_MIN_MS_SINCE_DISCONNECT), now)
    IN  [k \in {x \in DOMAIN table : ~expired(x)} |-> table[k]]

\* the table after the user-limit sweep of weir_enable_filter
user_limit_cleanup(table, now) ==
    LET expired(k) ==
            /\ table[k].download.active_requests <= 0
            /\ table[k].upload.active_requests <= 0
            /\ tick_is_expired(tick_add(table[k].last_request_end_tick,
                                        USERMAP_CLEANUP_MIN_MS_SINCE_DISCONNECT), now)
    IN  [k \in {x \in DOMAIN table : ~expired(x)} |-> table[k]]

\* the shares seen for the keys of a table
SeenFor(seen, table) ==
    [x \in {y \in DOMAIN seen : y[1] \in DOMAIN table} |-> seen[x]]

\* static int weir_attach(struct stream* s, struct filter* filter)
weir_attach(s, remote_addr, meth) ==
    /\ streams' = [streams EXCEPT ![s] =
                       [NoStream EXCEPT !.phase = "req", !.remote_addr = remote_addr,
                                        !.meth = meth]]
    /\ Quiet
    /\ UNCHANGED <<now_ms, user_limit_state, next_cleanup_tick, bug_on, seen_ever,
                   seen_since>>

\* the activation test left out: every call goes on to enable the stream
already_enabled_never(st) == FALSE

\* the double-activation test of weir_enable_filter: if (st->enabled)
already_enabled(st) == st.enabled

\* static enum act_return weir_enable_filter(rule, px, sess, s, flags); key,
\* request_class and direction are the user-key, operation-class and
\* operation-direction samples, NULL when the sample is absent
weir_enable_filter(s, key, request_class, direction) ==
    LET st == streams[s]
        st1 == [st EXCEPT !.enabled = TRUE,
                          !.limit_key = IF key # NULL THEN key ELSE @,
                          !.request_class =
                              IF request_class # NULL THEN request_class ELSE @,
                          !.bandwidth_limit_direction =
                              IF direction # NULL THEN direction ELSE @]
        found == kh_exist(user_limit_state, st1.limit_key)
        limit == IF found THEN user_limit_state[st1.limit_key]
                 ELSE ZeroUserLimit(pool_zalloc(user_limit_state))
        d == verb_direction(st.meth)
        counted == WithDirectionLimit(limit, d,
                       [DirectionLimit(limit, d) EXCEPT !.active_requests = @ + 1])
        table == kh_put(user_limit_state, st1.limit_key, counted)
        cleanup == tick_is_expired(next_cleanup_tick, now_ms)
        cleaned == IF cleanup THEN user_limit_cleanup(table, now_ms) ELSE table
    IN  /\ last_payload' = NoPayload
        /\ emitted' = <<>>
        /\ UNCHANGED <<now_ms, seen_ever>>
        /\ IF already_enabled(st)
           THEN /\ last_sweep' = NoSweep
                /\ UNCHANGED <<streams, user_limit_state, next_cleanup_tick, bug_on,
                               seen_since>>
           ELSE IF direction # NULL /\ direction # "up" /\ direction # "dwn"
           THEN /\ streams' = [streams EXCEPT ![s] = st1]
                /\ last_sweep' = NoSweep
                /\ UNCHANGED <<user_limit_state, next_cleanup_tick, bug_on, seen_since>>
           ELSE IF st1.limit_key = NULL
           THEN /\ streams' = [streams EXCEPT ![s] = [st1 EXCEPT !.data_filter = TRUE]]
                /\ bug_on' = "st->limit_key == NULL"
                /\ last_sweep' = NoSweep
                /\ UNCHANGED <<user_limit_state, next_cleanup_tick, seen_since>>
           ELSE /\ streams' = [streams EXCEPT ![s] =
                                   [st1 EXCEPT !.data_filter = TRUE, !.limit = limit.ptr]]
                /\ user_limit_state' = cleaned
                /\ last_sweep' =
                       IF cleanup
                       THEN [ran |-> TRUE, by |-> s,
                             removed |-> DOMAIN table \ DOMAIN cleaned]
                       ELSE NoSweep
                /\ next_cleanup_tick' =
                       IF cleanup
                       THEN tick_add(now_ms, USERMAP_CLEANUP_INTERVAL_MS)
                       ELSE next_cleanup_tick
                /\ seen_since' = SeenFor(seen_since, cleaned)
                /\ UNCHANGED bug_on

\* static int weir_http_headers(s, filter, msg); is_request tells the channel.
\* Its req event line is not recorded.
weir_http_headers(s, is_request) ==
    LET st == streams[s]
        st1 == [st EXCEPT !.phase = IF is_request THEN "res" ELSE "fwd"]
    IN  /\ Quiet
        /\ UNCHANGED <<now_ms, user_limit_state, next_cleanup_tick, seen_ever, seen_since>>
        /\ IF st.enabled /\ is_request /\ st.remote_addr # NullAddr
           THEN /\ streams' = [streams EXCEPT ![s] = [st1 EXCEPT !.headers_processed = TRUE]]
                /\ bug_on' =
                       IF st.limit = 0 THEN "st->limit == NULL"
                       ELSE IF st.limit_key = NULL THEN "st->limit_key == NULL"
                       ELSE IF st.bandwidth_limit_direction = NULL
                       THEN "st->bandwidth_limit_direction == NULL"
                       ELSE bug_on
           ELSE /\ streams' = [streams EXCEPT ![s] = st1]
                /\ UNCHANGED bug_on

\* static void weir_detach(struct stream* s, struct filter* filter).  Its
\* req_end event line is not recorded.  A limit pointer whose record was freed
\* writes to no record of the table, or to the record that reuses the address.
weir_detach(s) ==
    LET st == streams[s]
        d == verb_direction(st.meth)
        keys == KeysAt(user_limit_state, st.limit)
        ended(k) ==
            LET limit == [user_limit_state[k] EXCEPT !.last_request_end_tick = now_ms]
            IN  WithDirectionLimit(limit, d,
                    [DirectionLimit(limit, d) EXCEPT !.active_requests = @ - 1])
        r == rl_request_end(ip_port_key_hashmap, key_ip_port_count_hashmap,
                            st.remote_addr)
    IN  /\ Quiet
        /\ streams' = [streams EXCEPT ![s] = NoStream]
        /\ UNCHANGED <<now_ms, next_cleanup_tick, seen_ever, seen_since,
                       key_speed_epoch_hashmap, sweeper_dir>>
        /\ throttle_call' = NoCall
        /\ IF st.enabled /\ st.headers_processed /\ st.remote_addr # NullAddr
           THEN IF st.limit = 0 \/ st.limit_key = NULL
                   \/ st.bandwidth_limit_direction = NULL
                THEN /\ bug_on' = "weir_detach: WEIR_BUG_ON"
                     /\ UNCHANGED <<user_limit_state, ip_port_key_hashmap,
                                    key_ip_port_count_hashmap>>
                ELSE /\ UNCHANGED bug_on
                     /\ ip_port_key_hashmap' = r.map
                     /\ key_ip_port_count_hashmap' = r.counts
                     /\ user_limit_state' =
                            [k \in DOMAIN user_limit_state |->
                                IF k \in keys THEN ended(k) ELSE user_limit_state[k]]
           ELSE UNCHANGED <<user_limit_state, bug_on, ip_port_key_hashmap,
                            key_ip_port_count_hashmap>>

\* the data_xfer event of rl_data_transferred, if it emits one
rl_data_transferred(map, addr_in, data_direction, done) ==
    LET access_key == get_key_from_ip_port(map, ip_port_from_sockaddr(addr_in))
    IN  IF addr_in = NullAddr THEN <<>>
        ELSE IF access_key = NULL \/ access_key = "" THEN <<>>
        ELSE <<[type |-> "data_xfer", addr |-> addr_in, key |-> access_key,
                direction |-> direction_name(data_direction), bytes |-> done]>>

\* static int weir_http_payload(s, filter, msg, offset, len); is_request tells
\* the channel, current_epoch is the wall clock rl_speed_throttle reads.  The
\* load and the compare-and-swap of next_throttle_log_tick are one step here.
weir_http_payload(s, is_request, len, current_epoch) ==
    LET st == streams[s]
        direction == IF is_request THEN RL_UPLOAD ELSE RL_DOWNLOAD
        sendable == \/ ~tick_isset(st.next_allowed_send_tick)
                    \/ tick_is_expired(st.next_allowed_send_tick, now_ms)
        r == rl_speed_throttle(ip_port_key_hashmap, key_ip_port_count_hashmap,
                               key_speed_epoch_hashmap, st.remote_addr, direction,
                               current_epoch)
        keys == KeysAt(user_limit_state, st.limit)
        call(limited, throttle, bytes_to_forward) ==
            [called |-> TRUE, stream |-> s, direction |-> direction, len |-> len,
             limited |-> limited, throttle |-> throttle,
             bytes_to_forward |-> bytes_to_forward]
        logged(k) ==
            LET next_throttle_log_tick ==
                    DirectionLimit(user_limit_state[k], direction).next_throttle_log_tick
            IN  \/ ~tick_isset(next_throttle_log_tick)
                \/ tick_is_expired(next_throttle_log_tick, now_ms)
    IN  /\ UNCHANGED <<now_ms, next_cleanup_tick, seen_ever, seen_since,
                       ip_port_key_hashmap, key_ip_port_count_hashmap,
                       key_speed_epoch_hashmap, sweeper_dir>>
        /\ last_sweep' = NoSweep
        /\ last_enable' = NoEnable
        /\ IF ~st.enabled
           THEN /\ bug_on' = "!st->enabled"
                /\ last_payload' = NoPayload
                /\ emitted' = <<>>
                /\ throttle_call' = NoCall
                /\ UNCHANGED <<streams, user_limit_state>>
           ELSE IF st.remote_addr = NullAddr
           THEN /\ last_payload' = call(FALSE, RL_NO_THROTTLE, len)
                /\ emitted' = <<>>
                /\ throttle_call' = NoCall
                /\ UNCHANGED <<streams, user_limit_state, bug_on>>
           ELSE IF ~(len > 0 /\ sendable)
           THEN /\ last_payload' = call(FALSE, RL_NO_THROTTLE, 0)
                /\ emitted' = <<>>
                /\ throttle_call' = NoCall
                /\ UNCHANGED <<streams, user_limit_state, bug_on>>
           ELSE IF st.limit = 0 \/ st.bandwidth_limit_direction = NULL
           THEN /\ bug_on' = "weir_http_payload: WEIR_BUG_ON"
                /\ streams' = [streams EXCEPT ![s].next_allowed_send_tick = TICK_ETERNITY]
                /\ last_payload' = NoPayload
                /\ emitted' = <<>>
                /\ throttle_call' = NoCall
                /\ UNCHANGED user_limit_state
           ELSE /\ UNCHANGED bug_on
                /\ throttle_call' =
                       [called |-> TRUE, addr |-> st.remote_addr, dir |-> direction,
                        now |-> current_epoch, access_key |-> r.access_key,
                        found |-> r.found, jitter |-> r.jitter, result |-> r.result]
                /\ IF r.result = RL_THROTTLE
                   THEN /\ streams' = [streams EXCEPT ![s].next_allowed_send_tick =
                                           tick_add(now_ms, 1)]
                        /\ last_payload' = call(TRUE, RL_THROTTLE, 0)
                        /\ \E k \in (IF keys = {} THEN {NULL} ELSE keys) :
                               IF k # NULL /\ logged(k)
                               THEN /\ user_limit_state' =
                                          [user_limit_state EXCEPT ![k] =
                                              WithDirectionLimit(@, direction,
                                                  [DirectionLimit(@, direction) EXCEPT
                                                      !.next_throttle_log_tick =
                                                          tick_add(now_ms, 1000)])]
                                    /\ emitted' =
                                          <<[type |-> "weir-throttle",
                                             direction |-> st.bandwidth_limit_direction,
                                             key |-> st.limit_key]>>
                               ELSE /\ emitted' = <<>>
                                    /\ UNCHANGED user_limit_state
                   ELSE /\ streams' = [streams EXCEPT ![s].next_allowed_send_tick =
                                           TICK_ETERNITY]
                        /\ last_payload' = call(TRUE, RL_NO_THROTTLE, len)
                        /\ emitted' = rl_data_transferred(ip_port_key_hashmap,
                                                          st.remote_addr, direction, len)
                        /\ UNCHANGED user_limit_state

\* a thread that is not in the throttle branch of weir_http_payload: its
\* reading of now_ms, the direction of its channel, the next_throttle_log_tick
\* it loaded, whether it got to the compare-and-swap and what that returned
NoThread ==
    [pc |-> "idle", now_ms |-> 0, direction |-> RL_DOWNLOAD,
     next_throttle_log_tick |-> TICK_ETERNITY, swapping |-> FALSE,
     exchange_success |-> FALSE]

\* a store in place of the compare-and-swap
throttle_log_cas_store(current, expected, new_log_tick) ==
    [value |-> new_log_tick, exchange_success |-> TRUE]

\* HA_ATOMIC_CAS(next_tick_ptr, &next_throttle_log_tick, new_log_tick): the
\* value at next_tick_ptr after it, and exchange_success
throttle_log_cas(current, expected, new_log_tick) ==
    IF current = expected
    THEN [value |-> new_log_tick, exchange_success |-> TRUE]
    ELSE [value |-> current, exchange_success |-> FALSE]

\* weir_http_payload on the thread of stream s, from its entry to the
\* HA_ATOMIC_LOAD of its throttle branch: rl_speed_throttle returned Throttle
weir_http_payload_load(s, is_request, len, current_epoch) ==
    LET st == streams[s]
        direction == IF is_request THEN RL_UPLOAD ELSE RL_DOWNLOAD
        sendable == \/ ~tick_isset(st.next_allowed_send_tick)
                    \/ tick_is_expired(st.next_allowed_send_tick, now_ms)
        r == rl_speed_throttle(ip_port_key_hashmap, key_ip_port_count_hashmap,
                               key_speed_epoch_hashmap, st.remote_addr, direction,
                               current_epoch)
    IN  /\ payload_pc[s].pc = "idle"
        /\ st.enabled
        /\ st.remote_addr # NullAddr
        /\ len > 0 /\ sendable
        /\ st.limit # 0 /\ st.bandwidth_limit_direction # NULL
        /\ r.result = RL_THROTTLE
        /\ \E k \in KeysAt(user_limit_state, st.limit) :
               payload_pc' =
                   [payload_pc EXCEPT ![s] =
                       [NoThread EXCEPT
                           !.pc = "loaded", !.now_ms = now_ms, !.direction = direction,
                           !.next_throttle_log_tick =
                               DirectionLimit(user_limit_state[k], direction)
                                   .next_throttle_log_tick]]
        /\ streams' = [streams EXCEPT ![s].next_allowed_send_tick = tick_add(now_ms, 1)]
        /\ throttle_call' = NoCall
        /\ Quiet
        /\ UNCHANGED <<now_ms, user_limit_state, next_cleanup_tick, bug_on, seen_ever,
                       seen_since, ip_port_key_hashmap, key_ip_port_count_hashmap,
                       key_speed_epoch_hashmap, sweeper_dir, throttle_log>>

\* weir_http_payload on the thread of stream s: the test of the tick it loaded
\* and the compare-and-swap
weir_http_payload_cas(s) ==
    LET t == payload_pc[s]
        new_log_tick == tick_add(t.now_ms, 1000)
    IN  /\ t.pc = "loaded"
        /\ IF \/ ~tick_isset(t.next_throttle_log_tick)
              \/ tick_is_expired(t.next_throttle_log_tick, t.now_ms)
           THEN \E k \in KeysAt(user_limit_state, streams[s].limit) :
                    LET l == DirectionLimit(user_limit_state[k], t.direction)
                        c == throttle_log_cas(l.next_throttle_log_tick,
                                              t.next_throttle_log_tick, new_log_tick)
                    IN  /\ user_limit_state' =
                               [user_limit_state EXCEPT ![k] =
                                   WithDirectionLimit(@, t.direction,
                                       [l EXCEPT !.next_throttle_log_tick = c.value])]
                        /\ payload_pc' =
                               [payload_pc EXCEPT ![s] =
                                   [t EXCEPT !.pc = IF c.exchange_success THEN "swapped"
                                                    ELSE "idle",
                                             !.swapping = TRUE,
                                             !.exchange_success = c.exchange_success]]
           ELSE /\ payload_pc' = [payload_pc EXCEPT ![s].pc = "idle"]
                /\ UNCHANGED user_limit_state
        /\ Quiet
        /\ UNCHANGED <<thrVars, now_ms, next_cleanup_tick, streams, bug_on, seen_ever,
                       seen_since, throttle_log>>

\* weir_http_payload on the thread of stream s: the weir-throttle event line
\* of the thread whose compare-and-swap succeeded
weir_http_payload_log(s) ==
    LET t == payload_pc[s]
    IN  /\ t.pc = "swapped"
        /\ throttle_log' =
               throttle_log \cup
                   {[stream |-> s, key |-> streams[s].limit_key, direction |-> t.direction,
                     now_ms |-> t.now_ms, observed |-> t.next_throttle_log_tick]}
        /\ payload_pc' = [payload_pc EXCEPT ![s].pc = "idle"]
        /\ emitted' = <<[type |-> "weir-throttle",
                         direction |-> streams[s].bandwidth_limit_direction,
                         key |-> streams[s].limit_key]>>
        /\ last_payload' = NoPayload
        /\ last_sweep' = NoSweep
        /\ last_enable' = NoEnable
        /\ UNCHANGED <<thrVars, now_ms, user_limit_state, next_cleanup_tick, streams,
                       bug_on, seen_ever, seen_since>>

\* no thread is in weir_http_payload and nothing was logged
ElInit ==
    /\ payload_pc = [s \in Streams |-> NoThread]
    /\ throttle_log = {}

\* the share update storing every share, whatever its timestamp
limit_share_update_always(l, timestamp, new_limit_share) ==
    [l EXCEPT !.limit_received = TRUE, !.limit_timestamp = timestamp,
              !.bytes_per_second = ToUint(new_limit_share)]

\* weir_ingest_limit_share_update: the struct user_direction_limit l after a
\* share of the direction; bytes_per_second is a uint
limit_share_update(l, timestamp, new_limit_share) ==
    IF timestamp >= l.limit_timestamp
    THEN [l EXCEPT !.limit_received = TRUE, !.limit_timestamp = timestamp,
                   !.bytes_per_second = ToUint(new_limit_share)]
    ELSE [l EXCEPT !.limit_received = TRUE]

\* the share handed on as it was received
clamp_limit_share_none(new_limit_share) == new_limit_share

\* weir_ingest_limit_share_update: the uint64_t share snapped down to UINT_MAX
clamp_limit_share(new_limit_share) ==
    IF new_limit_share > UINT_MAX THEN UINT_MAX ELSE new_limit_share

\* int weir_ingest_limit_share_update(timestamp, user_key, instance_id,
\*                                    direction, new_limit_share).  seen_ever and
\* seen_since keep, for a (user, direction), the newest share published (of two
\* with the same timestamp, the later): its timestamp, its new_limit_share as
\* it was received, the share to store for it, and whether an older one came
\* after it.
weir_ingest_limit_share_update(timestamp, user_key, instance_id, direction, new_limit_share) ==
    LET found == kh_exist(user_limit_state, user_key)
        user_limit == IF found THEN user_limit_state[user_key]
                      ELSE ZeroUserLimit(pool_zalloc(user_limit_state))
        clamped == clamp_limit_share(new_limit_share)
        update(l) == limit_share_update(l, timestamp, clamped)
        seen(m) ==
            LET x == <<user_key, direction>>
            IN  IF x \in DOMAIN m /\ timestamp < m[x].timestamp
                THEN [m EXCEPT ![x].older = TRUE]
                ELSE kh_put(m, x, [timestamp |-> timestamp,
                                   new_limit_share |-> new_limit_share,
                                   share |-> MIN(new_limit_share, UINT_MAX),
                                   older |-> FALSE])
    IN  /\ Quiet
        /\ UNCHANGED <<now_ms, streams, next_cleanup_tick, bug_on>>
        /\ IF instance_id # InstanceId
           THEN UNCHANGED <<user_limit_state, seen_ever, seen_since>>
           ELSE IF direction = "up"
           THEN /\ user_limit_state' =
                       kh_put(user_limit_state, user_key,
                              [user_limit EXCEPT !.upload = update(@)])
                /\ seen_ever' = seen(seen_ever)
                /\ seen_since' = seen(seen_since)
           ELSE IF direction = "dwn"
           THEN /\ user_limit_state' =
                       kh_put(user_limit_state, user_key,
                              [user_limit EXCEPT !.download = update(@)])
                /\ seen_ever' = seen(seen_ever)
                /\ seen_since' = seen(seen_since)
           ELSE /\ user_limit_state' = kh_put(user_limit_state, user_key, user_limit)
                /\ UNCHANGED <<seen_ever, seen_since>>

\* the host's millisecond clock advances to a later reading
AdvanceClock(later) ==
    /\ later > now_ms
    /\ now_ms' = later
    /\ Quiet
    /\ UNCHANGED <<streams, user_limit_state, next_cleanup_tick, bug_on, seen_ever,
                   seen_since>>

\* parse_weir_flt: the filter configuration after construction
EnfInit ==
    /\ now_ms = 1
    /\ user_limit_state = kh_init
    /\ next_cleanup_tick = tick_add(1, USERMAP_CLEANUP_INTERVAL_MS)
    /\ streams = [s \in Streams |-> NoStream]
    /\ last_payload = NoPayload
    /\ emitted = <<>>
    /\ last_sweep = NoSweep
    /\ last_enable = NoEnable
    /\ bug_on = ""
    /\ seen_ever = kh_init
    /\ seen_since = kh_init

\* init_speed_epoch_hashmaps
ThrInit ==
    /\ ip_port_key_hashmap = kh_init
    /\ key_ip_port_count_hashmap = kh_init
    /\ key_speed_epoch_hashmap = [d \in DataDirection |-> kh_init]
    /\ sweeper_dir = RL_DOWNLOAD
    /\ throttle_call = NoCall

(***************************************************************************)
(* syslog_server: the aggregator.  A string is the sequence of the codes   *)
(* of its characters, an event line the sequence of the fields that its    *)
(* "~|~" delimiters separate, and a time_point a number of ticks since the *)
(* epoch.                                                                  *)
(***************************************************************************)
\* ticks to the second
TicksPerSec == 2

\* the string literals of msg_processor.cpp and msg_processor.h
Lit ==
    [req |-> <<114, 101, 113>>,
     req_end |-> <<114, 101, 113, 95, 101, 110, 100>>,
     data_xfer |-> <<100, 97, 116, 97, 95, 120, 102, 101, 114>>,
     active_reqs |-> <<97, 99, 116, 105, 118, 101, 95, 114, 101, 113, 115>>,
     user_ |-> <<117, 115, 101, 114, 95>>,
     bnd_ |-> <<98, 110, 100, 95>>,
     verb_ |-> <<118, 101, 114, 98, 95>>,
     conn_v2_user_ |-> <<99, 111, 110, 110, 95, 118, 50, 95, 117, 115, 101, 114, 95>>,
     hincrby |-> <<104, 105, 110, 99, 114, 98, 121>>,
     expire |-> <<101, 120, 112, 105, 114, 101>>,
     set |-> <<115, 101, 116>>,
     ex |-> <<101, 120>>,
     underscore |-> <<95>>, dollar |-> <<36>>, space |-> <<32>>]

\* fmt's "{}" of an integer: its decimal digits after a minus sign if negative
RECURSIVE to_decimal(_)
to_decimal(n) ==
    IF n < 0 THEN <<45>> \o to_decimal(-n)
    ELSE IF n < 10 THEN <<48 + n>>
    ELSE to_decimal(n \div 10) \o <<48 + (n % 10)>>

\* std::from_chars(first, last, int&): an optional minus sign and the longest
\* run of digits after it; ok is ec == std::errc{}, which fails when there is
\* no digit and when the number is not an int
from_chars(str) ==
    LET RECURSIVE digits(_)
        digits(t) == IF t # <<>> /\ t[1] >= 48 /\ t[1] <= 57 THEN 1 + digits(Tail(t)) ELSE 0
        RECURSIVE number(_, _)
        number(t, n) == IF n = 0 THEN 0 ELSE 10 * number(t, n - 1) + (t[n] - 48)
        minus == str # <<>> /\ str[1] = 45
        body == IF minus THEN Tail(str) ELSE str
        magnitude == number(body, digits(body))
        value == IF minus THEN -magnitude ELSE magnitude
    IN  [ok |-> digits(body) > 0 /\ value >= -INT_MAX - 1 /\ value <= INT_MAX,
         value |-> value]

\* StringSplit: n calls of next() return the first n fields of a line, and
\* finishedSuccessfully() holds after them iff the line has n fields, or has
\* one more which is empty (the index is at the end of the input before the
\* empty field after a trailing delimiter is returned)
finishedSuccessfully(line, n) == Len(line) = n \/ (Len(line) = n + 1 /\ line[n + 1] = <<>>)

\* std::isprint of the "C" locale
isprint(c) == c >= 32 /\ c <= 126

\* every character is accepted
isPrintableASCII_any(key) == TRUE

isPrintableASCII(key) == \A i \in 1..Len(key) : isprint(key[i])

\* uint32_t getEpochSecs(time_point): no reading is before the epoch
getEpochSecs(time_point) == ToUint(time_point \div TicksPerSec)

\* keys are equal only if their time_points are
RedisCmdKey_equal_exact(key, other) ==
    key.m_user = other.m_user /\ key.m_timestamp = other.m_timestamp /\ key.m_cat = other.m_cat

\* bool Processor::RedisCmdKey::operator==(const RedisCmdKey& other) const
RedisCmdKey_equal(key, other) ==
    /\ key.m_user = other.m_user
    /\ getEpochSecs(key.m_timestamp) = getEpochSecs(other.m_timestamp)
    /\ key.m_cat = other.m_cat

\* std::size_t Processor::RedisCmdKeyHash::operator()(const RedisCmdKey& k).
\* std::size_t has twice the width of an unsigned int; std::hash of a string
\* is a function of its characters, std::hash of a uint32_t the number itself.
RedisCmdKeyHash(k) ==
    LET size == UintModulus * UintModulus
        RECURSIVE string_hash(_)
        string_hash(str) ==
            IF str = <<>> THEN 0 ELSE (31 * string_hash(Tail(str)) + str[1]) % size
        RECURSIVE xor(_, _)
        xor(a, b) ==
            IF a = 0 THEN b ELSE IF b = 0 THEN a
            ELSE ((a + b) % 2) + 2 * xor(a \div 2, b \div 2)
        h1 == string_hash(k.m_user)
        h2 == getEpochSecs(k.m_timestamp)
        h3 == string_hash(k.m_cat)
    IN  xor(xor(h1, (h2 * 2) % size), (h3 * 4) % size)

\* no two keys were compared
NoKeyCall == [called |-> FALSE]

\* key1 == key2 and the hashes of the two, as a test of the keys makes them
compare_keys(key1, key2) ==
    key_call' = [called |-> TRUE, key1 |-> key1, key2 |-> key2,
                 equal |-> RedisCmdKey_equal(key1, key2),
                 hash1 |-> RedisCmdKeyHash(key1), hash2 |-> RedisCmdKeyHash(key2)]

\* the configuration: redis_qos_ttl and redis_check_conn_interval_sec in
\* seconds, metrics_batch_count in events, metrics_batch_period_msec in ticks
m_redis_qos_ttl == 1
m_check_conn_interval == 1
m_processor_batch_count == 2
m_processor_batch_flush_period == 0
m_redis_qos_conn_ttl == 60
\* endpoint: "dc"
m_endpoint == <<100, 99>>

\* the clock is not read after this tick, and no message is taken while the
\* command map holds MaxEntries entries or an entry of MaxEvents events
MaxTicks == 5
MaxEntries == 2
MaxEvents == 2

\* the readings a call of m_time.now() may give after one that gave t
Readings(t) == {r \in {t, t + 1} : r <= MaxTicks}

\* int + int: the sum if it is an int; signed overflow is undefined, and leaves
\* the wrapped sum or either end of the range
int_add(a, b) ==
    IF a + b >= -INT_MAX - 1 /\ a + b <= INT_MAX THEN {a + b}
    ELSE {ToInt(a + b), -INT_MAX - 1, INT_MAX}

\* the entry of key in an std::unordered_map<RedisCmdKey, int, RedisCmdKeyHash>:
\* the stored keys that have the hash of key and are equal to it
find(commands, key) ==
    {k \in DOMAIN commands : RedisCmdKeyHash(k) = RedisCmdKeyHash(key) /\ RedisCmdKey_equal(k, key)}

\* commands[key] += n: the maps it can leave
add_command(commands, key, n) ==
    IF find(commands, key) = {}
    THEN {kh_put(commands, key, v) : v \in int_add(0, n)}
    ELSE LET k == CHOOSE k \in find(commands, key) : TRUE
         IN  {[commands EXCEPT ![k] = v] : v \in int_add(commands[k], n)}

\* fmt::format("conn_v2_user_{}_{}_{}${}", direction, instance_id, user_key, m_endpoint)
conn_key(direction, instance_id, user_key) ==
    Lit.conn_v2_user_ \o direction \o Lit.underscore \o instance_id \o Lit.underscore
        \o user_key \o Lit.dollar \o m_endpoint

\* what the events held by the command map add up to, and how many they are,
\* after n more under (user, second of time_point, cat)
count(sums, user, time_point, cat, n) ==
    LET x == <<user, time_point \div TicksPerSec, cat>>
    IN  IF x \in DOMAIN sums
        THEN [sums EXCEPT ![x] = [sum |-> @.sum + n, events |-> @.events + 1]]
        ELSE kh_put(sums, x, [sum |-> n, events |-> 1])

\* no message was processed
NoEvent == [line |-> <<>>, accepted |-> FALSE]

\* no sendToRedisQos call was made
NoFlush == [called |-> FALSE]

\* the event of line was discarded
discard(line) ==
    /\ last_event' = [line |-> line, accepted |-> FALSE]
    /\ UNCHANGED <<time_now, m_qos_redis_commands, m_qos_redis_active_reqs,
                   m_qos_not_send_count, summed, gauged>>

\* the gauge is added to
set_active_reqs_add(active_reqs, key, active_requests) ==
    kh_put(active_reqs, key,
           (IF key \in DOMAIN active_reqs THEN active_reqs[key] ELSE 0) + active_requests)

\* m_qos_redis_active_reqs[conn_key] = active_requests
set_active_reqs(active_reqs, key, active_requests) == kh_put(active_reqs, key, active_requests)

\* void Processor::processReq(std::string_view raw_input)
processReq(raw_input) ==
    LET tokens == [i \in 1..8 |-> IF i <= Len(raw_input) THEN raw_input[i] ELSE <<>>]
        areqs_convert_result == from_chars(tokens[7])
        user_key == tokens[3]
        verb == tokens[4]
        request_class == tokens[8]
        key == conn_key(tokens[5], tokens[6], user_key)
        cmd_key == Lit.user_ \o user_key
    IN  IF \/ ~finishedSuccessfully(raw_input, 8)
           \/ ~areqs_convert_result.ok
           \/ ~isPrintableASCII(user_key)
        THEN discard(raw_input)
        ELSE \E now2 \in Readings(time_now) :
                 LET now1 == time_now
                     key1 == [m_user |-> cmd_key, m_timestamp |-> now1, m_cat |-> request_class]
                     key2 == [m_user |-> cmd_key, m_timestamp |-> now2, m_cat |-> verb]
                     with_class == IF Len(request_class) > 0
                                   THEN add_command(m_qos_redis_commands, key1, 1)
                                   ELSE {m_qos_redis_commands}
                     sums == IF Len(request_class) > 0
                             THEN count(summed, cmd_key, now1, request_class, 1)
                             ELSE summed
                 IN  /\ \E m1 \in with_class :
                            m_qos_redis_commands' \in add_command(m1, key2, 1)
                     /\ m_qos_redis_active_reqs' =
                            set_active_reqs(m_qos_redis_active_reqs, key,
                                            areqs_convert_result.value)
                     /\ m_qos_not_send_count' = m_qos_not_send_count + 1
                     /\ time_now' = now2
                     /\ summed' = count(sums, cmd_key, now2, verb, 1)
                     /\ gauged' = kh_put(gauged, key, raw_input)
                     /\ last_event' = [line |-> raw_input, accepted |-> TRUE]

\* void Processor::processDataXfer(std::string_view raw_input)
processDataXfer(raw_input) ==
    LET tokens == [i \in 1..5 |-> IF i <= Len(raw_input) THEN raw_input[i] ELSE <<>>]
        user == tokens[3]
        direction == tokens[4]
        len_convert_result == from_chars(tokens[5])
        len == len_convert_result.value
        direction_key == Lit.bnd_ \o direction
        cmd_key == Lit.user_ \o user
        key == [m_user |-> cmd_key, m_timestamp |-> time_now, m_cat |-> direction_key]
    IN  IF \/ ~finishedSuccessfully(raw_input, 5)
           \/ ~len_convert_result.ok
           \/ ~isPrintableASCII(user)
           \/ user = <<>>
        THEN discard(raw_input)
        ELSE /\ m_qos_redis_commands' \in add_command(m_qos_redis_commands, key, len)
             /\ m_qos_not_send_count' = m_qos_not_send_count + 1
             /\ summed' = count(summed, cmd_key, time_now, direction_key, len)
             /\ last_event' = [line |-> raw_input, accepted |-> TRUE]
             /\ UNCHANGED <<time_now, m_qos_redis_active_reqs, gauged>>

\* void Processor::processActiveRequests(std::string_view raw_input)
processActiveRequests(raw_input) ==
    LET tokens == [i \in 1..5 |-> IF i <= Len(raw_input) THEN raw_input[i] ELSE <<>>]
        areqs_convert_result == from_chars(tokens[5])
        key == conn_key(tokens[4], tokens[2], tokens[3])
    IN  IF ~finishedSuccessfully(raw_input, 5) \/ ~areqs_convert_result.ok
        THEN discard(raw_input)
        ELSE /\ m_qos_redis_active_reqs' =
                    set_active_reqs(m_qos_redis_active_reqs, key, areqs_convert_result.value)
             /\ m_qos_not_send_count' = m_qos_not_send_count + 1
             /\ gauged' = kh_put(gauged, key, raw_input)
             /\ last_event' = [line |-> raw_input, accepted |-> TRUE]
             /\ UNCHANGED <<time_now, m_qos_redis_commands, summed>>

\* void Processor::processReqEnd(std::string_view raw_input)
processReqEnd(raw_input) ==
    LET tokens == [i \in 1..7 |-> IF i <= Len(raw_input) THEN raw_input[i] ELSE <<>>]
        areqs_convert_result == from_chars(tokens[7])
        key == conn_key(tokens[5], tokens[6], tokens[3])
    IN  IF ~finishedSuccessfully(raw_input, 7) \/ ~areqs_convert_result.ok
        THEN discard(raw_input)
        ELSE /\ m_qos_redis_active_reqs' =
                    set_active_reqs(m_qos_redis_active_reqs, key, areqs_convert_result.value)
             /\ m_qos_not_send_count' = m_qos_not_send_count + 1
             /\ gauged' = kh_put(gauged, key, raw_input)
             /\ last_event' = [line |-> raw_input, accepted |-> TRUE]
             /\ UNCHANGED <<time_now, m_qos_redis_commands, summed>>

\* void RedisServerConnection::connect(): the status it leaves, where ok tells
\* that redisAsyncConnect gave a context without an error
connect(status, ok) == IF status = "DISCONNECTED" /\ ok THEN "CONNECTING" ELSE status

\* the orders in which a range-for may visit the entries of an unordered_map
\* with the keys S
Orders(S) ==
    {order \in [1..Cardinality(S) -> S] : \A i, j \in 1..Cardinality(S) : order[i] = order[j] => i = j}

\* fmt::format("verb_{}_{}${}", getEpochSecs(key.m_timestamp), key.m_user, m_endpoint)
ss_key(key) ==
    Lit.verb_ \o to_decimal(getEpochSecs(key.m_timestamp)) \o Lit.underscore \o key.m_user
        \o Lit.dollar \o m_endpoint

\* the reconnect test left out: every flush without a connection connects
since_connect_always(mono_now, last_redis_connect_time) == TRUE

\* since_connect > m_check_conn_interval
since_connect_elapsed(mono_now, last_redis_connect_time) ==
    mono_now - last_redis_connect_time > m_check_conn_interval * TicksPerSec

\* every entry is erased
is_timestamp_before_cutoff_all(timestamp, now) == TRUE

\* kvp.first.m_timestamp < m_time.now() - std::chrono::seconds(m_redis_qos_ttl)
is_timestamp_before_cutoff(timestamp, now) == timestamp < now - m_redis_qos_ttl * TicksPerSec

\* the commands of the first loop of sendToRedisQos, with an expire for every
\* entry
hincrby_commands_expire_each(commands, order) ==
    LET command(i) ==
            <<[op |-> "hincrby", key |-> ss_key(order[i]), entry |-> order[i],
               text |-> Lit.hincrby \o Lit.space \o ss_key(order[i]) \o Lit.space
                            \o order[i].m_cat \o Lit.space \o to_decimal(commands[order[i]])],
              [op |-> "expire", key |-> ss_key(order[i]),
               text |-> Lit.expire \o Lit.space \o ss_key(order[i]) \o Lit.space
                            \o to_decimal(m_redis_qos_ttl)]>>
        RECURSIVE loop(_)
        loop(i) == IF i > Len(order) THEN <<>> ELSE command(i) \o loop(i + 1)
    IN  loop(1)

\* the commands the first loop of sendToRedisQos adds, visiting the entries
\* of the command map in the given order
hincrby_commands(commands, order) ==
    LET hincrby(i) ==
            [op |-> "hincrby", key |-> ss_key(order[i]), entry |-> order[i],
             text |-> Lit.hincrby \o Lit.space \o ss_key(order[i]) \o Lit.space
                          \o order[i].m_cat \o Lit.space \o to_decimal(commands[order[i]])]
        expire(i) ==
            [op |-> "expire", key |-> ss_key(order[i]),
             text |-> Lit.expire \o Lit.space \o ss_key(order[i]) \o Lit.space
                          \o to_decimal(m_redis_qos_ttl)]
        RECURSIVE loop(_, _)
        loop(i, keys_found) ==
            IF i > Len(order) THEN <<>>
            ELSE <<hincrby(i)>>
                     \o (IF ss_key(order[i]) \notin keys_found THEN <<expire(i)>> ELSE <<>>)
                     \o loop(i + 1, keys_found \cup {ss_key(order[i])})
    IN  loop(1, {})

\* the commands the second loop of sendToRedisQos adds
set_commands(active_reqs, order) ==
    [i \in 1..Len(order) |->
        [op |-> "set", key |-> order[i],
         text |-> Lit.set \o Lit.space \o order[i] \o Lit.space
                      \o to_decimal(active_reqs[order[i]]) \o Lit.space \o Lit.ex
                      \o Lit.space \o to_decimal(m_redis_qos_conn_ttl)]]

\* the sums of the entries the command map still holds
held(sums, commands) ==
    [x \in {x \in DOMAIN sums :
               \E k \in DOMAIN commands :
                   k.m_user = x[1] /\ k.m_timestamp \div TicksPerSec = x[2] /\ k.m_cat = x[3]}
        |-> sums[x]]

\* sendToRedisQos flushing as soon as the batch period has elapsed
sendToRedisQos_at_period ==
    LET now == time_now
        flush_for_time == now - m_last_redis_flush_time >= m_processor_batch_flush_period
        flush_for_msg_count == m_qos_not_send_count >= m_processor_batch_count
        before == [called |-> TRUE, now |-> now, commands |-> m_qos_redis_commands,
                   active_reqs |-> m_qos_redis_active_reqs,
                   connection_status |-> m_connection_status,
                   last_redis_connect_time |-> m_last_redis_connect_time]
    IN  /\ last_event' = NoEvent
        /\ UNCHANGED m_needs_reconnect
        /\ IF ~flush_for_time /\ ~flush_for_msg_count
           THEN /\ last_flush' = [flushed |-> FALSE] @@ before
                /\ UNCHANGED <<time_now, m_qos_redis_commands, m_qos_redis_active_reqs,
                               m_connection_status, m_last_redis_connect_time,
                               m_last_redis_flush_time, m_qos_not_send_count, summed,
                               gauged>>
           ELSE /\ m_last_redis_flush_time' = now
                /\ m_qos_not_send_count' = 0
                /\ gauged' = kh_init
                /\ m_qos_redis_active_reqs' = kh_init
                /\ IF m_connection_status # "CONNECTED"
                   THEN \E mono_now \in Readings(now) : \E cutoff_now \in Readings(mono_now) :
                        \E ok \in BOOLEAN :
                            LET attempt ==
                                    since_connect_elapsed(mono_now, m_last_redis_connect_time)
                                kept == {k \in DOMAIN m_qos_redis_commands :
                                            ~is_timestamp_before_cutoff(k.m_timestamp,
                                                                        cutoff_now)}
                            IN  /\ m_last_redis_connect_time' =
                                       IF attempt THEN mono_now ELSE m_last_redis_connect_time
                                /\ m_connection_status' =
                                       IF attempt THEN connect(m_connection_status, ok)
                                       ELSE m_connection_status
                                /\ ~attempt => ok
                                /\ m_qos_redis_commands' =
                                       [k \in kept |-> m_qos_redis_commands[k]]
                                /\ summed' = held(summed, m_qos_redis_commands')
                                /\ time_now' = cutoff_now
                                /\ last_flush' =
                                       [flushed |-> TRUE, submitted |-> <<>>,
                                        connect |-> attempt, mono_now |-> mono_now,
                                        cutoff_now |-> cutoff_now] @@ before
                   ELSE \E entries \in Orders(DOMAIN m_qos_redis_commands) :
                        \E gauges \in Orders(DOMAIN m_qos_redis_active_reqs) :
                            /\ m_qos_redis_commands' = kh_init
                            /\ summed' = kh_init
                            /\ last_flush' =
                                   [flushed |-> TRUE,
                                    submitted |->
                                        hincrby_commands(m_qos_redis_commands, entries)
                                            \o set_commands(m_qos_redis_active_reqs, gauges),
                                    connect |-> FALSE, mono_now |-> now,
                                    cutoff_now |-> now] @@ before
                            /\ UNCHANGED <<time_now, m_connection_status,
                                           m_last_redis_connect_time>>

\* void Processor::sendToRedisQos()
sendToRedisQos ==
    LET now == time_now
        flush_for_time == now - m_last_redis_flush_time > m_processor_batch_flush_period
        flush_for_msg_count == m_qos_not_send_count >= m_processor_batch_count
        before == [called |-> TRUE, now |-> now, commands |-> m_qos_redis_commands,
                   active_reqs |-> m_qos_redis_active_reqs,
                   connection_status |-> m_connection_status,
                   last_redis_connect_time |-> m_last_redis_connect_time]
    IN  /\ last_event' = NoEvent
        /\ UNCHANGED m_needs_reconnect
        /\ IF ~flush_for_time /\ ~flush_for_msg_count
           THEN /\ last_flush' = [flushed |-> FALSE] @@ before
                /\ UNCHANGED <<time_now, m_qos_redis_commands, m_qos_redis_active_reqs,
                               m_connection_status, m_last_redis_connect_time,
                               m_last_redis_flush_time, m_qos_not_send_count, summed,
                               gauged>>
           ELSE /\ m_last_redis_flush_time' = now
                /\ m_qos_not_send_count' = 0
                /\ gauged' = kh_init
                /\ m_qos_redis_active_reqs' = kh_init
                /\ IF m_connection_status # "CONNECTED"
                   THEN \E mono_now \in Readings(now) : \E cutoff_now \in Readings(mono_now) :
                        \E ok \in BOOLEAN :
                            LET attempt ==
                                    since_connect_elapsed(mono_now, m_last_redis_connect_time)
                                kept == {k \in DOMAIN m_qos_redis_commands :
                                            ~is_timestamp_before_cutoff(k.m_timestamp,
                                                                        cutoff_now)}
                            IN  /\ m_last_redis_connect_time' =
                                       IF attempt THEN mono_now ELSE m_last_redis_connect_time
                                /\ m_connection_status' =
                                       IF attempt THEN connect(m_connection_status, ok)
                                       ELSE m_connection_status
                                /\ ~attempt => ok
                                /\ m_qos_redis_commands' =
                                       [k \in kept |-> m_qos_redis_commands[k]]
                                /\ summed' = held(summed, m_qos_redis_commands')
                                /\ time_now' = cutoff_now
                                /\ last_flush' =
                                       [flushed |-> TRUE, submitted |-> <<>>,
                                        connect |-> attempt, mono_now |-> mono_now,
                                        cutoff_now |-> cutoff_now] @@ before
                   ELSE \E entries \in Orders(DOMAIN m_qos_redis_commands) :
                        \E gauges \in Orders(DOMAIN m_qos_redis_active_reqs) :
                            /\ m_qos_redis_commands' = kh_init
                            /\ summed' = kh_init
                            /\ last_flush' =
                                   [flushed |-> TRUE,
                                    submitted |->
                                        hincrby_commands(m_qos_redis_commands, entries)
                                            \o set_commands(m_qos_redis_active_reqs, gauges),
                                    connect |-> FALSE, mono_now |-> now,
                                    cutoff_now |-> now] @@ before
                            /\ UNCHANGED <<time_now, m_connection_status,
                                           m_last_redis_connect_time>>

\* the prologue of void Processor::messageConsumerThread(std::stop_token stop)
messageConsumerThread_start ==
    /\ consumer_pc = "start"
    /\ consumer_pc' = "dequeue"
    /\ m_last_redis_connect_time' = time_now
    /\ \E ok \in BOOLEAN : m_connection_status' = connect(m_connection_status, ok)
    /\ last_event' = NoEvent
    /\ last_flush' = NoFlush
    /\ UNCHANGED <<time_now, m_qos_redis_commands, m_qos_redis_active_reqs, m_needs_reconnect,
                   m_last_redis_flush_time, m_qos_not_send_count, summed, gauged>>

\* messageConsumerThread: a message is taken off the queue and processed.  A
\* message begins with a prefix of RawEvents when the prefix is its first field
\* and it has more fields.
messageConsumerThread_dequeue(buffer) ==
    LET begins(prefix) == Len(buffer) > 1 /\ buffer[1] = prefix
    IN  /\ consumer_pc = "dequeue"
        /\ consumer_pc' = "flush"
        /\ last_flush' = NoFlush
        /\ UNCHANGED <<m_connection_status, m_needs_reconnect, m_last_redis_connect_time,
                       m_last_redis_flush_time>>
        /\ IF begins(Lit.req) THEN processReq(buffer)
           ELSE IF begins(Lit.data_xfer) THEN processDataXfer(buffer)
           ELSE IF begins(Lit.active_reqs) THEN processActiveRequests(buffer)
           ELSE IF begins(Lit.req_end) THEN processReqEnd(buffer)
           ELSE discard(buffer)

\* messageConsumerThread: no message came within sleep_time
messageConsumerThread_timeout ==
    /\ consumer_pc = "dequeue"
    /\ consumer_pc' = "flush"
    /\ last_event' = NoEvent
    /\ last_flush' = NoFlush
    /\ UNCHANGED <<time_now, m_qos_redis_commands, m_qos_redis_active_reqs,
                   m_connection_status, m_needs_reconnect, m_last_redis_connect_time,
                   m_last_redis_flush_time, m_qos_not_send_count, summed, gauged>>

\* messageConsumerThread: sendToRedisQos()
messageConsumerThread_flush ==
    /\ consumer_pc = "flush"
    /\ consumer_pc' = "drain"
    /\ sendToRedisQos

\* messageConsumerThread: drainRedisCmdPipeline() runs the callbacks that are
\* due (connectCallback with status, disconnectCallback with status, where a
\* clean disconnect connects again and ok tells how), then reconnectIfNeeded()
messageConsumerThread_drain(callback, status_ok, ok) ==
    LET drained ==
            IF callback = "connectCallback"
            THEN IF status_ok THEN "CONNECTED" ELSE "DISCONNECTED"
            ELSE IF callback = "disconnectCallback"
            THEN IF status_ok THEN connect("DISCONNECTED", ok) ELSE "DISCONNECTED"
            ELSE m_connection_status
    IN  /\ consumer_pc = "drain"
        /\ consumer_pc' = "dequeue"
        /\ callback = "connectCallback" => m_connection_status = "CONNECTING"
        /\ callback = "disconnectCallback" =>
               \/ m_connection_status = "CONNECTED" /\ ~status_ok
               \/ m_connection_status = "DISCONNECTING" /\ status_ok
        /\ m_connection_status' =
               IF m_needs_reconnect /\ drained = "CONNECTED" THEN "DISCONNECTING" ELSE drained
        /\ m_needs_reconnect' = FALSE
        /\ last_event' = NoEvent
        /\ last_flush' = NoFlush
        /\ UNCHANGED <<time_now, m_qos_redis_commands, m_qos_redis_active_reqs,
                       m_last_redis_connect_time, m_last_redis_flush_time,
                       m_qos_not_send_count, summed, gauged>>

\* checkRedisServerConnThread: checkIfNeedsReconnect(), where ip_changed tells
\* that no address the host resolves to is the peer's
checkIfNeedsReconnect(ip_changed) ==
    /\ m_connection_status = "CONNECTED" /\ ~m_needs_reconnect
    /\ m_needs_reconnect' = ip_changed
    /\ UNCHANGED <<time_now, m_qos_redis_commands, m_qos_redis_active_reqs,
                   m_connection_status, m_last_redis_connect_time, m_last_redis_flush_time,
                   m_qos_not_send_count, consumer_pc, last_event, last_flush, summed,
                   gauged>>

\* the clock ticks
tick ==
    /\ time_now < MaxTicks
    /\ time_now' = time_now + 1
    /\ UNCHANGED <<m_qos_redis_commands, m_qos_redis_active_reqs, m_connection_status,
                   m_needs_reconnect, m_last_redis_connect_time, m_last_redis_flush_time,
                   m_qos_not_send_count, consumer_pc, last_event, last_flush, summed,
                   gauged>>

\* Processor::Processor and RedisServerConnection::RedisServerConnection; the
\* clock reads one second
AggInit ==
    /\ time_now = TicksPerSec
    /\ m_qos_redis_commands = kh_init
    /\ m_qos_redis_active_reqs = kh_init
    /\ m_connection_status = "DISCONNECTED"
    /\ m_needs_reconnect = FALSE
    /\ m_last_redis_connect_time = 0
    /\ m_last_redis_flush_time = 0
    /\ m_qos_not_send_count = 0
    /\ consumer_pc = "start"
    /\ last_event = NoEvent
    /\ last_flush = NoFlush
    /\ summed = kh_init
    /\ gauged = kh_init
    /\ key_call = NoKeyCall

(***************************************************************************)
(* syslog_server: stringsplit.cpp.  A string_view is a sequence of         *)
(* character codes; positions are counted from 0 as in the code.           *)
(***************************************************************************)
\* std::string_view::npos
npos == -1

\* std::string_view::substr(pos, count) for pos <= size()
substr(input, pos, n) == SubSeq(input, pos + 1, MIN(pos + n, Len(input)))

\* std::string_view::find(delimiter, pos)
sv_find(input, delimiter, pos) ==
    LET found == {i \in pos..(Len(input) - Len(delimiter)) :
                     substr(input, i, Len(delimiter)) = delimiter}
    IN  IF found = {} THEN npos ELSE CHOOSE i \in found : \A j \in found : i <= j

\* no StringSplit object
NoSplit == [constructed |-> FALSE]

\* StringSplit::StringSplit(input, delimiter)
StringSplit(input, delimiter) ==
    [constructed |-> TRUE, m_input |-> input, m_delimiter |-> delimiter, m_index |-> 0,
     m_error |-> delimiter = <<>>, m_eof |-> FALSE, returned |-> <<>>]

\* next() with the index moved one character past the delimiter found
StringSplit_next_one(s) ==
    LET next_index == sv_find(s.m_input, s.m_delimiter, s.m_index)
        return(result, t) == [t EXCEPT !.returned = Append(@, result)]
    IN  IF s.m_error THEN return(<<>>, s)
        ELSE IF s.m_eof THEN return(<<>>, [s EXCEPT !.m_error = TRUE])
        ELSE IF s.m_input = <<>> THEN return(<<>>, [s EXCEPT !.m_eof = TRUE, !.m_index = 1])
        ELSE IF next_index = npos
        THEN return(substr(s.m_input, s.m_index, Len(s.m_input)),
                    [s EXCEPT !.m_eof = TRUE, !.m_index = Len(s.m_input)])
        ELSE return(substr(s.m_input, s.m_index, next_index - s.m_index),
                    [s EXCEPT !.m_index = next_index + 1])

\* std::string_view StringSplit::next(): the object after the call, with the
\* view it returned appended to returned
StringSplit_next(s) ==
    LET next_index == sv_find(s.m_input, s.m_delimiter, s.m_index)
        return(result, t) == [t EXCEPT !.returned = Append(@, result)]
    IN  IF s.m_error THEN return(<<>>, s)
        ELSE IF s.m_eof THEN return(<<>>, [s EXCEPT !.m_error = TRUE])
        ELSE IF s.m_input = <<>> THEN return(<<>>, [s EXCEPT !.m_eof = TRUE, !.m_index = 1])
        ELSE IF next_index = npos
        THEN return(substr(s.m_input, s.m_index, Len(s.m_input)),
                    [s EXCEPT !.m_eof = TRUE, !.m_index = Len(s.m_input)])
        ELSE return(substr(s.m_input, s.m_index, next_index - s.m_index),
                    [s EXCEPT !.m_index = next_index + Len(s.m_delimiter)])

\* bool StringSplit::finishedSuccessfully() const
StringSplit_finishedSuccessfully(s) == ~s.m_error /\ s.m_index >= Len(s.m_input)

(***************************************************************************)
(* flt_weir.c: the "show weir limits" command.  The user-limit table is a  *)
(* sequence of hash slots, each NULL (empty) or the key of a record; the   *)
(* output is the sequence of chunks the applet buffer took: "header" and   *)
(* the keys of the rows.                                                   *)
(***************************************************************************)
\* no "show weir limits" command is running
NoDump == [running |-> FALSE]

\* the command is issued: the svcctx is zeroed before the first call
show_weir_limits(slots) ==
    [running |-> TRUE, slots |-> slots, skip |-> 0, emitted |-> <<>>, ret |-> 0]

\* static int cli_show_weir_limits(struct appctx* appctx), where the applet
\* buffer has room for room chunks: applet_putchk gives -1 once they are used
cli_show_weir_limits(d, room) ==
    LET kh_end == Len(d.slots)
        header == IF d.skip = 0 /\ room >= 1 THEN <<"header">> ELSE <<>>
        RECURSIVE loop(_, _, _)
        loop(iter, skip, out) ==
            IF iter = kh_end THEN [d EXCEPT !.emitted = @ \o out, !.ret = 1]
            ELSE IF d.slots[iter + 1] = NULL THEN loop(iter + 1, skip, out)
            ELSE IF Len(out) >= room
            THEN [d EXCEPT !.emitted = @ \o out, !.skip = skip, !.ret = 0]
            ELSE loop(iter + 1, ToUint(skip + 1), Append(out, d.slots[iter + 1]))
    IN  loop(d.skip, d.skip, header)

(***************************************************************************)
(* syslog_server: syslog_server.cpp.  A datagram is what recvfrom gave:    *)
(* recv_len, the text from the first event prefix found in it on           *)
(* (data_start, NULL if there is none) and whether stripping the trailing  *)
(* newlines leaves it empty.  The queue is the bounded single-producer     *)
(* queue of message_queue(msg_queue_size): try_enqueue fails when it holds *)
(* msg_queue_size messages, and never waits.                               *)
(***************************************************************************)
\* the length of the receive buffer, and the size of the queue
buffer_len == 3
msg_queue_size == 2

\* the truncation test left out
is_truncated_never(recv_len) == FALSE

\* if (recv_len == buffer_len): the data might be truncated
is_truncated(recv_len) == recv_len = buffer_len

\* queue.try_enqueue(item) of the bounded queue: whether it took the item, and
\* the queue afterwards
try_enqueue(queue, item) ==
    IF Len(queue) < msg_queue_size THEN [ok |-> TRUE, queue |-> Append(queue, item)]
    ELSE [ok |-> FALSE, queue |-> queue]

\* no datagram was received yet
NoDatagram == [called |-> FALSE, outcome |-> ""]

\* one iteration of the loop of msgProducerThread on the datagram recvfrom
\* gave; buf_view[0] of an empty view is undefined, and reads the newline in
\* the buffer or aborts a checked build
msgProducerThread(datagram) ==
    LET loop(outcome, queue, pc) ==
            receiver' = [queue |-> queue, pc |-> pc,
                         last |-> [called |-> TRUE, datagram |-> datagram, outcome |-> outcome,
                                   queue |-> receiver.queue, after |-> receiver.last.outcome]]
    IN  /\ receiver.pc = "recvfrom"
        /\ IF datagram.recv_len < 0 THEN loop("exit", receiver.queue, "exited")
           ELSE IF datagram.recv_len = 0 THEN loop("empty", receiver.queue, "recvfrom")
           ELSE IF is_truncated(datagram.recv_len)
           THEN loop("too big", receiver.queue, "recvfrom")
           ELSE IF datagram.data_start # NULL
           THEN IF try_enqueue(receiver.queue, datagram.data_start).ok
                THEN loop("enqueued", try_enqueue(receiver.queue, datagram.data_start).queue,
                          "recvfrom")
                ELSE loop("queue full", receiver.queue, "recvfrom")
           ELSE IF datagram.blank
           THEN \/ loop("logged", receiver.queue, "recvfrom")
                \/ loop("abort", receiver.queue, "aborted")
           ELSE loop("logged", receiver.queue, "recvfrom")

\* the consumer takes a message off the queue
wait_dequeue_timed ==
    /\ receiver.queue # <<>>
    /\ receiver' = [receiver EXCEPT !.queue = Tail(@), !.last.called = FALSE]

(***************************************************************************)
(* syslog_server: msg_processor.cpp, the threads of a Processor.  Each     *)
(* std::jthread has its own stop state; join() waits for the thread and    *)
(* requests nothing.  remaining is the time wait_for has left, in ticks.   *)
(***************************************************************************)
\* a Processor after construction: no thread is joinable
NoThreads ==
    [consumer |-> "none", watcher |-> "none", consumer_stop |-> FALSE, watcher_stop |-> FALSE,
     destructor |-> "none", remaining |-> 0]

\* messageConsumerThread, one step of the consumer: the loop test
\* while (!stop.stop_requested()), the timed dequeue with the processing of
\* the message, sendToRedisQos ("upkeep"), the drain with reconnectIfNeeded
messageConsumerThread_loop(t) ==
    IF t.consumer = "loop"
    THEN IF t.consumer_stop THEN [t EXCEPT !.consumer = "exited"]
         ELSE [t EXCEPT !.consumer = "dequeue"]
    ELSE IF t.consumer = "dequeue" THEN [t EXCEPT !.consumer = "upkeep"]
    ELSE IF t.consumer = "upkeep" THEN [t EXCEPT !.consumer = "drain"]
    ELSE IF t.consumer = "drain" THEN [t EXCEPT !.consumer = "loop"]
    ELSE t

\* checkRedisServerConnThread, one step of the watcher: the loop test, the
\* predicate of m_redis_cv.wait_for, the wait (woken by a notify, by the
\* timeout or spuriously), and checkIfNeedsReconnect
checkRedisServerConnThread(t, woken) ==
    IF t.watcher = "loop"
    THEN IF t.watcher_stop THEN [t EXCEPT !.watcher = "exited"]
         ELSE [t EXCEPT !.watcher = "predicate",
                        !.remaining = m_check_conn_interval * TicksPerSec]
    ELSE IF t.watcher = "predicate"
    THEN IF t.watcher_stop THEN [t EXCEPT !.watcher = "exited"]
         ELSE [t EXCEPT !.watcher = "wait"]
    ELSE IF t.watcher = "wait"
    THEN IF t.remaining = 0
         THEN IF t.watcher_stop THEN [t EXCEPT !.watcher = "exited"]
              ELSE [t EXCEPT !.watcher = "check"]
         ELSE IF woken THEN [t EXCEPT !.watcher = "predicate"] ELSE t
    ELSE IF t.watcher = "check" THEN [t EXCEPT !.watcher = "loop"]
    ELSE t

\* Processor::~Processor(), one step: request_stop on the watcher's stop
\* source, notify_one, join the consumer, join the watcher, destroy the members
Processor_destructor(t) ==
    IF t.destructor = "none" THEN [t EXCEPT !.destructor = "request_stop"]
    ELSE IF t.destructor = "request_stop"
    THEN [t EXCEPT !.watcher_stop = TRUE, !.destructor = "notify_one"]
    ELSE IF t.destructor = "notify_one"
    THEN [t EXCEPT !.destructor = "join consumer",
                   !.watcher = IF @ = "wait" THEN "predicate" ELSE @]
    ELSE IF t.destructor = "join consumer"
    THEN IF t.consumer \in {"none", "exited"} THEN [t EXCEPT !.destructor = "join watcher"]
         ELSE t
    ELSE IF t.destructor = "join watcher"
    THEN IF t.watcher \in {"none", "exited"} THEN [t EXCEPT !.destructor = "members"]
         ELSE t
    ELSE t

(***************************************************************************)
(* syslog_server: redis_utils.cpp, RedisServerConnection member by member. *)
(* m_async_context is 0 for nullptr and else the number of the context     *)
(* redisAsyncConnect gave; an address is the string                        *)
(* NetInterface::getIpAddressBySockAddr returns for it.  calls counts the  *)
(* calls the last operation made through NetInterface, trail lists the     *)
(* values it assigned to m_connection_status; threw tells that connect()   *)
(* threw std::runtime_error, which ends the program.                       *)
(***************************************************************************)
NoCalls == [getaddrinfo |-> 0, redisAsyncConnect |-> 0, redisAsyncDisconnect |-> 0]

\* RedisServerConnection::RedisServerConnection and the member initialisers
RedisServerConnection ==
    [m_connection_status |-> "DISCONNECTED", m_needs_reconnect |-> FALSE,
     m_async_context |-> 0, m_redis_ip |-> "", m_loop |-> FALSE,
     m_total_conns_requested |-> 0, m_total_conns_made |-> 0, m_total_conns_failed |-> 0,
     m_total_conns_success |-> 0, m_total_conn_drops |-> 0, m_total_reconnects |-> 0,
     threw |-> FALSE, calls |-> NoCalls, trail |-> <<>>]

\* void RedisServerConnection::connect(), where alloc tells that
\* redisAsyncConnect gave a context, err that the context has err != 0 and
\* attach that redisLibevAttach returned REDIS_OK
RedisServerConnection_connect_always(c, alloc, err, attach) ==
    LET requested == [c EXCEPT !.m_total_conns_requested = @ + 1]
        made == [requested EXCEPT !.m_total_conns_made = @ + 1,
                                  !.calls.redisAsyncConnect = @ + 1]
    IN  IF ~alloc THEN [made EXCEPT !.m_async_context = 0]
        ELSE IF err THEN [made EXCEPT !.m_total_conns_failed = @ + 1, !.m_async_context = 0]
        ELSE IF ~attach
        THEN [made EXCEPT !.m_async_context = made.m_total_conns_made, !.m_loop = TRUE,
                          !.m_total_conns_failed = @ + 1, !.threw = TRUE]
        ELSE [made EXCEPT !.m_async_context = made.m_total_conns_made, !.m_loop = TRUE,
                          !.m_connection_status = "CONNECTING",
                          !.trail = Append(@, "CONNECTING")]

RedisServerConnection_connect(c, alloc, err, attach) ==
    LET requested == [c EXCEPT !.m_total_conns_requested = @ + 1]
        made == [requested EXCEPT !.m_total_conns_made = @ + 1,
                                  !.calls.redisAsyncConnect = @ + 1]
    IN  IF c.m_connection_status # "DISCONNECTED" THEN requested
        ELSE IF ~alloc THEN [made EXCEPT !.m_async_context = 0]
        ELSE IF err THEN [made EXCEPT !.m_total_conns_failed = @ + 1, !.m_async_context = 0]
        ELSE IF ~attach
        THEN [made EXCEPT !.m_async_context = made.m_total_conns_made, !.m_loop = TRUE,
                          !.m_total_conns_failed = @ + 1, !.threw = TRUE]
        ELSE [made EXCEPT !.m_async_context = made.m_total_conns_made, !.m_loop = TRUE,
                          !.m_connection_status = "CONNECTING",
                          !.trail = Append(@, "CONNECTING")]

\* void RedisServerConnection::connectCallback(c, status), where peer is the
\* string getIpAddressBySockAddr gives for the context's socket address
connectCallback_keeps_ip(c, status_ok, peer) ==
    IF ~status_ok
    THEN [c EXCEPT !.m_total_conns_failed = @ + 1, !.m_connection_status = "DISCONNECTED",
                   !.m_async_context = 0, !.trail = Append(@, "DISCONNECTED")]
    ELSE [c EXCEPT !.m_total_conns_success = @ + 1,
                   !.m_connection_status = "CONNECTED", !.trail = Append(@, "CONNECTED")]

connectCallback(c, status_ok, peer) ==
    IF ~status_ok
    THEN [c EXCEPT !.m_total_conns_failed = @ + 1, !.m_connection_status = "DISCONNECTED",
                   !.m_async_context = 0, !.trail = Append(@, "DISCONNECTED")]
    ELSE [c EXCEPT !.m_total_conns_success = @ + 1, !.m_redis_ip = peer,
                   !.m_connection_status = "CONNECTED", !.trail = Append(@, "CONNECTED")]

\* void RedisServerConnection::disconnectCallback(c, status); with REDIS_OK it
\* calls connect()
disconnectCallback_no_connect(c, status_ok, alloc, err, attach) ==
    [c EXCEPT !.m_connection_status = "DISCONNECTED", !.m_total_conn_drops = @ + 1,
              !.m_async_context = 0, !.trail = Append(@, "DISCONNECTED")]

disconnectCallback(c, status_ok, alloc, err, attach) ==
    LET dropped == [c EXCEPT !.m_connection_status = "DISCONNECTED",
                             !.m_total_conn_drops = @ + 1, !.m_async_context = 0,
                             !.trail = Append(@, "DISCONNECTED")]
    IN  IF status_ok THEN RedisServerConnection_connect(dropped, alloc, err, attach)
        ELSE dropped

\* void RedisServerConnection::reconnectIfNeeded().  redisAsyncDisconnect
\* disconnects, and runs disconnectCallback with REDIS_OK, inside the call
\* (sync) when no reply is outstanding, and else once the replies are in.
RedisServerConnection_reconnectIfNeeded_any(c, sync, alloc, err, attach) ==
    LET disconnecting ==
            [c EXCEPT !.m_connection_status = "DISCONNECTING", !.m_total_reconnects = @ + 1,
                      !.calls.redisAsyncDisconnect = @ + 1,
                      !.trail = Append(@, "DISCONNECTING")]
        disconnected ==
            IF sync THEN disconnectCallback(disconnecting, TRUE, alloc, err, attach)
            ELSE disconnecting
    IN  IF ~c.m_needs_reconnect THEN c
        ELSE IF disconnected.threw THEN disconnected
        ELSE [disconnected EXCEPT !.m_needs_reconnect = FALSE]

RedisServerConnection_reconnectIfNeeded(c, sync, alloc, err, attach) ==
    LET disconnecting ==
            [c EXCEPT !.m_connection_status = "DISCONNECTING", !.m_total_reconnects = @ + 1,
                      !.calls.redisAsyncDisconnect = @ + 1,
                      !.trail = Append(@, "DISCONNECTING")]
        disconnected ==
            IF sync THEN disconnectCallback(disconnecting, TRUE, alloc, err, attach)
            ELSE disconnecting
    IN  IF ~c.m_needs_reconnect THEN c
        ELSE IF c.m_connection_status # "CONNECTED" THEN [c EXCEPT !.m_needs_reconnect = FALSE]
        ELSE IF disconnected.threw THEN disconnected
        ELSE [disconnected EXCEPT !.m_needs_reconnect = FALSE]

\* void RedisServerConnection::checkIfNeedsReconnect() on the watcher's
\* thread, in two steps between which the consumer's thread runs: the test of
\* m_connection_status and m_needs_reconnect (entered FALSE), then the
\* resolution, the comparison and the assignment (entered TRUE).  rv4 and rv6
\* tell that getaddrinfo returned 0 for AF_INET and AF_INET6, addrs are the
\* addresses of servinfo, read_ip is what the comparison reads in m_redis_ip.
\* The result is the connection and whether the call goes on to resolve.
RedisServerConnection_checkIfNeedsReconnect(c, entered, rv4, rv6, addrs, read_ip) ==
    IF ~entered
    THEN [c |-> c, resolve |-> c.m_connection_status = "CONNECTED" /\ ~c.m_needs_reconnect]
    ELSE IF ~rv4 /\ ~rv6
    THEN [c |-> [c EXCEPT !.calls.getaddrinfo = @ + 2], resolve |-> FALSE]
    ELSE [c |-> [c EXCEPT !.calls.getaddrinfo = @ + (IF rv4 THEN 1 ELSE 2),
                          !.m_needs_reconnect = \A a \in addrs : a # read_ip],
          resolve |-> FALSE]

\* the calls of connect() and the failures, drops and address changes a run has
MaxConnects == 3
MaxFaults == 2

\* before any operation: the host resolves to one address, the watcher is
\* outside checkIfNeedsReconnect
NoOperation == [op |-> "", before |-> RedisServerConnection]

(***************************************************************************)
(* The state of these objects before any of them is made.                  *)
(***************************************************************************)
(***************************************************************************)
(* The tables of rate_limit.c and flt_weir.c with their locks, thread by   *)
(* thread: one ip:port of the ip_port map, whose value is a pointer to a   *)
(* key string on the heap, the rwlock of that map, the rwlocks of the two  *)
(* speed maps and the state_lock of the user-limit table.                  *)
(***************************************************************************)
\* the number of key strings the heap has room for
MaxKeys == 2

KeyAddrs == 1..MaxKeys

\* two worker threads of the host and the thread of remove_old_epochs
Workers == {"t1", "t2"}

Sweeper == "remove_old_epochs"

Locks ==
    {"ip_port_key_hashmap_lck", "key_upload_speed_epoch_hashmap_lck",
     "key_download_speed_epoch_hashmap_lck", "state_lock"}

\* an rwlock that nobody holds or waits for
NoLock == [writer |-> "", readers |-> {}, waiting |-> {}]

\* a thread between two operations: prog is what is left of its operation,
\* access_key, key_copy and p are the locals of that name, held its locks
IdleThread == [prog |-> <<>>, access_key |-> 0, key_copy |-> 0, p |-> 0, held |-> <<>>]

\* the tables after rate_limit_init and the filter's init: the ip:port has no
\* entry, no key string is allocated, no lock is held; freed_read tells that a
\* thread has read a key string that was freed
NoTables ==
    [map |-> 0, live |-> {}, lock |-> [l \in Locks |-> NoLock],
     th |-> [t \in Workers \cup {Sweeper} |-> IdleThread], dir |-> RL_DOWNLOAD,
     freed_read |-> FALSE]

AuxInit ==
    /\ split = NoSplit
    /\ dump = NoDump
    /\ threads = NoThreads
    /\ rsc = RedisServerConnection
    /\ net = [host |-> {"10.0.0.1"}, faults |-> MaxFaults, watcher |-> "idle", started |-> FALSE,
              seen |-> {}, route |-> {}, last |-> NoOperation]
    /\ receiver = [queue |-> <<>>, pc |-> "recvfrom", last |-> NoDatagram]
    /\ mt = NoTables

(***************************************************************************)
(* The throttle table on its own: its operations called in any order by    *)
(* the controller, the request script and the enforcer.                    *)
(***************************************************************************)
\* wall-clock seconds at which a policy is installed
InstallSec == 100

\* wall-clock readings of rl_speed_throttle calls: one second before the
\* install, the install second, one second later (100 ms and 375 ms into the
\* second), the last valid second and the first invalid one
QueryWall ==
    {[sec |-> InstallSec - 1, usec |-> 100000],
     [sec |-> InstallSec, usec |-> 100000],
     [sec |-> InstallSec + 1, usec |-> 100000],
     [sec |-> InstallSec + 1, usec |-> 375000],
     [sec |-> InstallSec + BACKOFF_WINDOW_EPOCHS, usec |-> 375000],
     [sec |-> InstallSec + BACKOFF_WINDOW_EPOCHS + 1, usec |-> 375000]}

\* wall-clock readings of the sweeper: the last second a policy is kept and the
\* first second it is stale
SweepWall ==
    {[sec |-> InstallSec + SPEED_TABLE_STALE_POLICY_AGE_SEC + d, usec |-> 0] : d \in {0, 1}}

\* the set_throttle_epoch_us calls of the controller: [key, epoch_us, dir, ratio]
EpochCalls ==
    { [key |-> "u1", epoch_us |-> 750000, dir |-> RL_DOWNLOAD, ratio |-> <<2, 1>>],
      [key |-> "u1", epoch_us |-> 2999999, dir |-> RL_UPLOAD, ratio |-> <<5, 4>>],
      [key |-> "u2", epoch_us |-> 3000000, dir |-> RL_DOWNLOAD, ratio |-> <<4, 1>>],
      [key |-> "", epoch_us |-> 750000, dir |-> RL_UPLOAD, ratio |-> <<2, 1>>] }

ThrSetIpPortKey ==
    \E ip \in {a.ip : a \in Addrs} \cup {BadIp}, key \in Users \cup {""} :
        /\ key \in Users => get_ip_port_count_from_key(key_ip_port_count_hashmap, key) < MaxConns
        /\ set_ip_port_key(ip, 80, key)

ThrRequestEnd == \E a \in Addrs \cup {NullAddr} : RequestEnd(a)

ThrSetThrottleEpoch ==
    \E c \in EpochCalls :
        set_throttle_epoch_us(c.key, c.epoch_us, c.dir, c.ratio,
                              [sec |-> InstallSec, usec |-> 0])

ThrSpeedThrottle ==
    \E a \in Addrs \cup {NullAddr}, d \in DataDirection, w \in QueryWall :
        SpeedThrottle(a, d, w)

ThrRemoveOldEpochs == \E w \in SweepWall : RemoveOldEpochs(w)

ThrottleNext ==
    \/ ThrSetIpPortKey /\ UNCHANGED <<bwVars, enfVars, elVars, aggVars, auxVars>>
    \/ ThrRequestEnd /\ UNCHANGED <<bwVars, enfVars, elVars, aggVars, auxVars>>
    \/ ThrSetThrottleEpoch /\ UNCHANGED <<bwVars, enfVars, elVars, aggVars, auxVars>>
    \/ ThrSpeedThrottle /\ UNCHANGED <<bwVars, enfVars, elVars, aggVars, auxVars>>
    \/ ThrRemoveOldEpochs /\ UNCHANGED <<bwVars, enfVars, elVars, aggVars, auxVars>>

Init == ThrInit /\ BwInit /\ EnfInit /\ ElInit /\ AggInit /\ AuxInit

SpecThrottle == Init /\ [][ThrottleNext]_vars

(***************************************************************************)
(* apply_bandwidth_limit on its own: calls with any limit, request count   *)
(* and chunk length on one counter, while the clock advances.              *)
(***************************************************************************)
\* the largest number of concurrent requests a call is made with
MaxRequests == 2
\* the clock stops advancing here
MaxBwNow == 2501
\* the number of calls made on the counter
MaxBwCalls == 3

BwLimits == {0, 10, UINT_MAX}

BwBytesAvailable == {0, 7, 100}

BwSteps == {250, 1000}

BwApply ==
    \E limit \in BwLimits, requests \in 1..MaxRequests, bytes_available \in BwBytesAvailable :
        /\ bw_calls < MaxBwCalls
        /\ ApplyBandwidthLimit(limit, requests, bytes_available)
        /\ UNCHANGED <<thrVars, enfVars, elVars, aggVars, auxVars>>

BwAdvance ==
    \E step \in BwSteps :
        /\ bw_now + step <= MaxBwNow
        /\ AdvanceNowMs(step)
        /\ UNCHANGED <<thrVars, enfVars, elVars, aggVars, auxVars>>

BwNext == BwApply \/ BwAdvance

SpecBW == Init /\ [][BwNext]_vars

(***************************************************************************)
(* The handlers as the host and the controller call them, with the inputs  *)
(* drawn from the sets a specification gives.                              *)
(***************************************************************************)
\* a stream is created: calls are [s, remote_addr, meth]
Attach(calls) ==
    \E c \in calls :
        /\ bug_on = ""
        /\ streams[c.s].phase = "none"
        /\ weir_attach(c.s, c.remote_addr, c.meth)
        /\ UNCHANGED <<thrVars, bwVars, elVars, aggVars, auxVars>>

\* an activate-weir rule runs, among the request rules or the response rules:
\* calls are [s, key, class, direction]; max_active bounds the requests counted
Enable(calls, max_active) ==
    \E c \in calls :
        /\ bug_on = ""
        /\ streams[c.s].phase \in {"req", "res"}
        /\ c.key \in DOMAIN user_limit_state =>
               DirectionLimit(user_limit_state[c.key], verb_direction(streams[c.s].meth))
                   .active_requests < max_active
        /\ weir_enable_filter(c.s, c.key, c.class, c.direction)
        /\ last_enable' = NoEnable
        /\ UNCHANGED <<thrVars, bwVars, elVars, aggVars, auxVars>>

\* the same, the call recorded
EnableRecorded(calls, max_active) ==
    \E c \in calls :
        /\ bug_on = ""
        /\ streams[c.s].phase \in {"req", "res"}
        /\ c.key \in DOMAIN user_limit_state =>
               DirectionLimit(user_limit_state[c.key], verb_direction(streams[c.s].meth))
                   .active_requests < max_active
        /\ weir_enable_filter(c.s, c.key, c.class, c.direction)
        /\ last_enable' = [s |-> c.s, key |-> c.key, request_class |-> c.class,
                           direction |-> c.direction, enabled |-> streams[c.s].enabled]
        /\ UNCHANGED <<thrVars, bwVars, elVars, aggVars, auxVars>>

\* the headers callback runs, for the request and then for the response
Headers(ss) ==
    \E s \in ss :
        /\ bug_on = ""
        /\ streams[s].phase \in {"req", "res"}
        /\ weir_http_headers(s, streams[s].phase = "req")
        /\ UNCHANGED <<thrVars, bwVars, elVars, aggVars, auxVars>>

\* the payload callback runs on a channel whose headers were filtered, if the
\* data filter is registered: calls are [s, is_request, len, current_epoch]
Payload(calls) ==
    \E c \in calls :
        /\ bug_on = ""
        /\ streams[c.s].data_filter
        /\ streams[c.s].phase \in (IF c.is_request THEN {"res", "fwd"} ELSE {"fwd"})
        /\ weir_http_payload(c.s, c.is_request, c.len, c.current_epoch)
        /\ UNCHANGED <<bwVars, elVars, aggVars, auxVars>>

\* a stream ends, at any point of its life
Detach(ss) ==
    \E s \in ss :
        /\ bug_on = ""
        /\ streams[s].phase # "none"
        /\ weir_detach(s)
        /\ UNCHANGED <<bwVars, elVars, aggVars, auxVars>>

\* the controller publishes a share: calls are the arguments
IngestShare(calls) ==
    \E c \in calls :
        /\ bug_on = ""
        /\ weir_ingest_limit_share_update(c.timestamp, c.user_key, c.instance_id,
                                          c.direction, c.new_limit_share)
        /\ UNCHANGED <<thrVars, bwVars, elVars, aggVars, auxVars>>

Clock(readings) ==
    \E later \in readings :
        /\ bug_on = ""
        /\ AdvanceClock(later)
        /\ UNCHANGED <<thrVars, bwVars, elVars, aggVars, auxVars>>

(***************************************************************************)
(* The enforcer's streams and its user-limit table: stream s1 (a GET, with *)
(* or without an IPv4 source) and stream s2 (a PUT) attach, are enabled    *)
(* from a request or a response rule, have their headers and payload       *)
(* filtered and detach, while the clock advances.  The throttle table      *)
(* stays empty and no share is published.                                  *)
(***************************************************************************)
\* no stream is enabled for a user that already counts this many requests in
\* the direction of the stream
MaxActiveRequests == 1

\* the clock reading after construction: the first cleanup tick
NowValues == {1 + USERMAP_CLEANUP_INTERVAL_MS}

AttachCalls ==
    {[s |-> "s1", remote_addr |-> a, meth |-> "GET"] : a \in {StreamAddr("s1"), NullAddr}}
    \cup {[s |-> "s2", remote_addr |-> StreamAddr("s2"), meth |-> "PUT"]}

\* the user-key and operation-direction samples, NULL when there is none
EnableCalls ==
    {[s |-> "s1", key |-> k, class |-> "LISTBUCKETS", direction |-> d] :
        k \in {"u1", NULL}, d \in {"dwn", "sideways"}}
    \cup {[s |-> "s2", key |-> k, class |-> IF k = "u1" THEN NULL ELSE "PUTOBJECT",
            direction |-> "up"] : k \in Users}

\* a chunk of the response of s1 and a chunk of the request of s2
PayloadCalls ==
    {[s |-> "s1", is_request |-> FALSE, len |-> 3,
      current_epoch |-> [sec |-> InstallSec, usec |-> 0]],
     [s |-> "s2", is_request |-> TRUE, len |-> 3,
      current_epoch |-> [sec |-> InstallSec, usec |-> 0]]}

Next ==
    \/ Attach(AttachCalls)
    \/ Enable(EnableCalls, MaxActiveRequests)
    \/ Headers(Streams)
    \/ Payload(PayloadCalls)
    \/ Detach(Streams)
    \/ Clock(NowValues)

Spec == Init /\ [][Next]_vars

(***************************************************************************)
(* Properties of the throttle table.  A throttle_call record is cleared by *)
(* every other operation, so while it is set the tables are the ones the   *)
(* call read.                                                              *)
(***************************************************************************)
\* the user key the ip_port of the last call is mapped to, NULL when unmapped
CallKey ==
    LET ip_port == ip_port_from_sockaddr(throttle_call.addr)
    IN  IF throttle_call.addr # NullAddr /\ ip_port \in DOMAIN ip_port_key_hashmap
        THEN ip_port_key_hashmap[ip_port]
        ELSE NULL

\* the last call found a policy for its user and direction
CallHasPolicy ==
    /\ CallKey # NULL
    /\ CallKey \in DOMAIN key_speed_epoch_hashmap[throttle_call.dir]

CallPolicy == key_speed_epoch_hashmap[throttle_call.dir][CallKey]

\* current second minus received second of the policy the last call found
CallAge == throttle_call.now.sec - CallPolicy.received_epoch_sec

\* C6: rl_speed_throttle returns NoThrottle when the ip_port has no user
\* mapping, when the user has no policy for the direction, or when the policy
\* is not valid (its age, an unsigned difference, is not within 0..6); for a
\* valid policy it returns NoThrottle when the microseconds elapsed in the
\* current second are below allowed_run_time_usec and Throttle otherwise.
C6_ThrottleDecision ==
    throttle_call.called =>
        IF CallHasPolicy /\ CallAge >= 0 /\ CallAge <= BACKOFF_WINDOW_EPOCHS
        THEN throttle_call.result =
                 (IF throttle_call.now.usec < throttle_call.found.allowed_run_time_usec
                  THEN RL_NO_THROTTLE ELSE RL_THROTTLE)
        ELSE throttle_call.result = RL_NO_THROTTLE

\* a call on a valid policy, one second old, made exactly allowed_run_time_usec
\* into the second, returned Throttle
C6_Witness ==
    /\ throttle_call.called
    /\ CallHasPolicy
    /\ CallAge = 1
    /\ throttle_call.now.usec = throttle_call.found.allowed_run_time_usec
    /\ throttle_call.result = RL_THROTTLE

\* C7: rl_speed_throttle returns Throttle only if a policy for the looked-up
\* user and direction exists whose age (current second minus received second)
\* is at most 6, whatever the order of the wall-clock readings.
C7_ThrottleOnlyInWindow ==
    (throttle_call.called /\ throttle_call.result = RL_THROTTLE) =>
        (CallHasPolicy /\ CallAge <= BACKOFF_WINDOW_EPOCHS)

\* Throttle was returned on a policy received in the second of the call
C7_Witness ==
    /\ throttle_call.called
    /\ throttle_call.result = RL_THROTTLE
    /\ CallHasPolicy
    /\ CallAge = 0

\* a call whose wall-clock reading lies before the second the policy was
\* received (the clock moved backward) returned NoThrottle
C7_WitnessBackward ==
    /\ throttle_call.called
    /\ CallHasPolicy
    /\ CallAge < 0
    /\ throttle_call.result = RL_NO_THROTTLE

\* C8 as claimed: whenever rl_speed_throttle evaluates a valid policy (age 0
\* to 6), 50_000 <= allowed_run_time_usec <= 1_000_000.
C8_BackoffBoundAsClaimed ==
    (throttle_call.called /\ throttle_call.found.throttle = 1) =>
        /\ throttle_call.found.allowed_run_time_usec >= 50000
        /\ throttle_call.found.allowed_run_time_usec <= 1000000

\* C8 (amended): whenever rl_speed_throttle evaluates a valid policy,
\* allowed_run_time_usec is 0 at age 0 and 50_000 <= allowed_run_time_usec <=
\* 1_000_000 at ages 1 to 6.
C8_BackoffBound ==
    (throttle_call.called /\ throttle_call.found.throttle = 1) =>
        /\ CallHasPolicy
        /\ CallAge \in 0..BACKOFF_WINDOW_EPOCHS
        /\ CallAge = 0 => throttle_call.found.allowed_run_time_usec = 0
        /\ CallAge >= 1 =>
               /\ throttle_call.found.allowed_run_time_usec >= 50000
               /\ throttle_call.found.allowed_run_time_usec <= 1000000

\* a valid policy whose stored elapsed time is 0 was evaluated at age 1 (the
\* floor applies), and another at age 6 (the cap applies)
C8_Witness ==
    /\ throttle_call.called
    /\ throttle_call.found.throttle = 1
    /\ \/ /\ CallAge = 1
          /\ throttle_call.found.elapsed_usec_in_the_epoch = 0
          /\ throttle_call.found.allowed_run_time_usec = 50000
       \/ /\ CallAge = BACKOFF_WINDOW_EPOCHS
          /\ throttle_call.found.allowed_run_time_usec = 1000000

\* the call of the scenario: user u1's DOWN policy installed at second 100 with
\* epoch_us = 750_000 and diff_ratio = 2.0, queried at second 101, 100_000 us in
C9_ScenarioCall ==
    /\ throttle_call.called
    /\ throttle_call.access_key = "u1"
    /\ throttle_call.dir = RL_DOWNLOAD
    /\ throttle_call.found.throttle = 1
    /\ throttle_call.found.received_epoch_sec = 100
    /\ throttle_call.found.elapsed_usec_in_the_epoch = 750000
    /\ throttle_call.found.diff_ratio = <<2, 1>>
    /\ throttle_call.now = [sec |-> 101, usec |-> 100000]

\* a call one second after installation whose elapsed-in-second is below the
\* computed allowed run time
C9_GeneralCall ==
    /\ throttle_call.called
    /\ throttle_call.found.throttle = 1
    /\ CallHasPolicy
    /\ CallAge = 1
    /\ throttle_call.now.usec < throttle_call.found.allowed_run_time_usec

\* C9 as claimed: the scenario's query computes allowed_run_time_usec = 375_000
\* and returns Throttle; one second after installation a query whose
\* elapsed-in-second is below the allowed run time returns Throttle.
C9_ScenarioAsClaimed ==
    /\ C9_ScenarioCall =>
           /\ throttle_call.found.allowed_run_time_usec = 375000
           /\ throttle_call.result = RL_THROTTLE
    /\ C9_GeneralCall => throttle_call.result = RL_THROTTLE

\* C9 (amended): the scenario's query computes allowed_run_time_usec = 375_000
\* and returns NoThrottle; one second after installation a query whose
\* elapsed-in-second is below the allowed run time returns NoThrottle.
C9_Scenario ==
    /\ C9_ScenarioCall =>
           /\ throttle_call.found.allowed_run_time_usec = 375000
           /\ throttle_call.result = RL_NO_THROTTLE
    /\ C9_GeneralCall => throttle_call.result = RL_NO_THROTTLE

\* the scenario's call was made
C9_Witness == C9_ScenarioCall /\ C9_GeneralCall

(***************************************************************************)
(* Properties of apply_bandwidth_limit.                                    *)
(***************************************************************************)
\* the overshoot of the counter the last call started from
CallOvershoot ==
    freq_ctr_overshoot_period(bw_call.before, period_ms, bw_call.limit, bw_call.now)

\* the remaining quota of the counter the last call started from
CallRemaining ==
    freq_ctr_remain_period(bw_call.before, period_ms, bw_call.limit, 0, bw_call.now)

\* min(bytes_available, ceil(remaining / requests)), computed exactly
CallFairShare ==
    MIN(bw_call.bytes_available,
        (CallRemaining + bw_call.requests - 1) \div bw_call.requests)

\* C5: with a positive overshoot apply_bandwidth_limit returns bytes_to_forward
\* = 0 and wait_ms = min(2000, overshoot*1000*requests/limit) (2000 when limit
\* = 0) and leaves the counter unchanged; otherwise it returns bytes_to_forward
\* = min(bytes_available, ceil(remaining/requests)), adds exactly that amount to
\* the counter, and sets wait_ms = min(2000, next_event_delay) only when
\* bytes_to_forward < bytes_available (0 otherwise); always 0 <= bytes_to_forward
\* <= bytes_available and 0 <= wait_ms <= 2000.
C5_ApplyBandwidthResult ==
    bw_call.called =>
        /\ IF CallOvershoot > 0
           THEN /\ bw_call.bytes_to_forward = 0
                /\ bw_call.wait_ms =
                       (IF bw_call.limit = 0 THEN 2000
                        ELSE MIN(2000, (CallOvershoot * 1000 * bw_call.requests)
                                           \div bw_call.limit))
                /\ bw_counter = bw_call.before
           ELSE /\ bw_call.bytes_to_forward = CallFairShare
                /\ bw_counter = update_freq_ctr_period(bw_call.before, period_ms,
                                                       CallFairShare, bw_call.now)
                /\ bw_call.wait_ms =
                       (IF CallFairShare < bw_call.bytes_available
                        THEN MIN(2000, next_event_delay_period(bw_counter, period_ms,
                                                                bw_call.limit, 0, bw_call.now))
                        ELSE 0)
        /\ 0 <= bw_call.bytes_to_forward
        /\ bw_call.bytes_to_forward <= bw_call.bytes_available
        /\ 0 <= bw_call.wait_ms
        /\ bw_call.wait_ms <= 2000

(***************************************************************************)
(* Properties of the enforcer's streams and its user-limit table.          *)
(***************************************************************************)
\* the streams that exist and were enabled for user k with a request counted in
\* direction d
EnabledStreams(k, d) ==
    {s \in Streams : /\ streams[s].phase # "none"
                     /\ streams[s].enabled
                     /\ streams[s].limit_key = k
                     /\ verb_direction(streams[s].meth) = d}

\* C1: for every user and direction, after any sequence of attach, enable,
\* headers, payload and detach operations, active_requests is never negative,
\* and it is 0 once every stream that was enabled for that user and direction
\* has detached.
C1_ActiveRequestConservation ==
    \A k \in DOMAIN user_limit_state, d \in DataDirection :
        LET active_requests == DirectionLimit(user_limit_state[k], d).active_requests
        IN  /\ active_requests >= 0
            /\ EnabledStreams(k, d) = {} => active_requests = 0

\* the streams that exist and hold a pointer to a struct user_limit
Referencing == {s \in Streams : streams[s].phase # "none" /\ streams[s].limit # 0}

\* C2: the struct user_limit a stream was enabled with is in the user-limit
\* table, under the key of the stream and at the address the stream holds, for
\* as long as the stream has not detached: no sweep frees it.
C2_UserLimitLifetime ==
    \A s \in Referencing :
        /\ kh_exist(user_limit_state, streams[s].limit_key)
        /\ user_limit_state[streams[s].limit_key].ptr = streams[s].limit

\* the enable of one stream has just swept the table and freed a record, while
\* another stream holds a record whose grace period is over
C2_Witness ==
    /\ last_sweep.ran
    /\ last_sweep.removed # {}
    /\ \E s \in Referencing \ {last_sweep.by} :
           /\ kh_exist(user_limit_state, streams[s].limit_key)
           /\ tick_is_expired(
                  tick_add(user_limit_state[streams[s].limit_key].last_request_end_tick,
                           USERMAP_CLEANUP_MIN_MS_SINCE_DISCONNECT), now_ms)

(***************************************************************************)
(* The activate-weir rule run more than once on a stream, and with         *)
(* operation-direction samples that are neither "up" nor "dwn": the calls  *)
(* of Spec, each one recorded in last_enable.                              *)
(***************************************************************************)
EnableNext ==
    \/ Attach(AttachCalls)
    \/ EnableRecorded(EnableCalls, MaxActiveRequests)
    \/ Headers(Streams)
    \/ Detach(Streams)

SpecEnable == Init /\ [][EnableNext]_vars

\* C11: a weir_enable_filter call on a stream that is enabled already changes
\* nothing: the user-limit table (so every user's active_requests) and the
\* stream's limit_key, request_class, bandwidth_limit_direction and limit are
\* after the call what they were before it, whatever samples the call carries.
C11_IdempotentEnable ==
    [][\A s \in Streams :
           (streams[s].enabled /\ last_enable'.s = s) =>
               /\ user_limit_state' = user_limit_state
               /\ streams'[s].limit_key = streams[s].limit_key
               /\ streams'[s].request_class = streams[s].request_class
               /\ streams'[s].bandwidth_limit_direction =
                      streams[s].bandwidth_limit_direction
               /\ streams'[s].limit = streams[s].limit]_vars

\* a stream that is enabled and counted as a request of its user has just been
\* enabled again, with the key and the request class of another user
C11_Witness ==
    /\ last_enable.s \in Streams
    /\ last_enable.enabled
    /\ LET st == streams[last_enable.s]
       IN  /\ st.enabled
           /\ st.limit_key \in Users
           /\ last_enable.key \in Users \ {st.limit_key}
           /\ last_enable.request_class # st.request_class
           /\ DirectionLimit(user_limit_state[st.limit_key], verb_direction(st.meth))
                  .active_requests = 1

\* C12: a weir_enable_filter call whose operation-direction sample is present
\* and neither "up" nor "dwn" leaves the stream disabled: enabled stays false,
\* no data callback is registered and no active_requests changes.
C12_InvalidDirectionStaysDisabled ==
    [][\A s \in Streams :
           (/\ last_enable'.s = s
            /\ ~streams[s].enabled
            /\ last_enable'.direction \notin {NULL, "up", "dwn"}) =>
               /\ ~streams'[s].enabled
               /\ ~streams'[s].data_filter
               /\ user_limit_state' = user_limit_state]_vars

(***************************************************************************)
(* Shares published by the controller while requests come and go: shares   *)
(* for u1 with two timestamps, for this instance and for another one, and  *)
(* stream s2 (a PUT of u2) whose enable sweeps the table when the cleanup  *)
(* tick has passed.                                                        *)
(***************************************************************************)
\* the timestamps of the published shares are 1..MaxTimestamp
MaxTimestamp == 2

ShareValues == {3, UINT_MAX + 1}

\* download shares of u1 with every timestamp and value, two upload shares, a
\* share for no direction and one for another instance
SharesShareCalls ==
    {[timestamp |-> t, user_key |-> "u1", instance_id |-> InstanceId,
      direction |-> "dwn", new_limit_share |-> v] :
        t \in 1..MaxTimestamp, v \in ShareValues}
    \cup {[timestamp |-> t, user_key |-> "u1", instance_id |-> InstanceId,
           direction |-> "up", new_limit_share |-> 3] : t \in {1, 2}}
    \cup {[timestamp |-> 1, user_key |-> "u1", instance_id |-> InstanceId,
           direction |-> "sideways", new_limit_share |-> 3],
          [timestamp |-> 1, user_key |-> "u1", instance_id |-> "lb-2",
           direction |-> "dwn", new_limit_share |-> 3]}

SharesAttachCalls == {[s |-> "s2", remote_addr |-> StreamAddr("s2"), meth |-> "PUT"]}

SharesEnableCalls ==
    {[s |-> "s2", key |-> k, class |-> NULL, direction |-> "up"] : k \in Users}

SharesNowValues == {1 + USERMAP_CLEANUP_INTERVAL_MS}

SharesNext ==
    \/ IngestShare(SharesShareCalls)
    \/ Attach(SharesAttachCalls)
    \/ Enable(SharesEnableCalls, MaxActiveRequests)
    \/ Headers({"s2"})
    \/ Detach({"s2"})
    \/ Clock(SharesNowValues)

SpecShares == Init /\ [][SharesNext]_vars

\* the struct user_direction_limit of a (user, direction) pair x
ShareLimit(x) ==
    IF x[2] = "up" THEN user_limit_state[x[1]].upload
    ELSE user_limit_state[x[1]].download

\* C3, as claimed: for every (user, direction) whose record holds a share, the
\* stored bytes_per_second is the clamped value of the
\* weir_ingest_limit_share_update call with the greatest timestamp made so far
\* for that (user, direction), however the calls were interleaved with enables,
\* detaches and sweeps.
C3_MonotoneSharesAsClaimed ==
    \A x \in DOMAIN seen_ever :
        (kh_exist(user_limit_state, x[1]) /\ ShareLimit(x).limit_received) =>
            ShareLimit(x).bytes_per_second = seen_ever[x].share

\* C3, amended: for every (user, direction) whose record holds a share, the
\* stored bytes_per_second and limit_timestamp are those of the call with the
\* greatest timestamp made since the record of the user was created (the later
\* of two calls with that timestamp); a sweep that frees the record forgets
\* the shares published before it.
C3_MonotoneShares ==
    \A x \in DOMAIN seen_since :
        (kh_exist(user_limit_state, x[1]) /\ ShareLimit(x).limit_received) =>
            /\ ShareLimit(x).bytes_per_second = seen_since[x].share
            /\ ShareLimit(x).limit_timestamp = seen_since[x].timestamp

\* a share older than the stored one was published and not stored, in a record
\* created after a sweep freed one that held a newer share than it holds now
C3_Witness ==
    \E x, y \in DOMAIN seen_since :
        /\ kh_exist(user_limit_state, x[1])
        /\ ShareLimit(x).limit_received
        /\ seen_since[x].older
        /\ y[1] = x[1]
        /\ seen_ever[y].timestamp > seen_since[y].timestamp

\* C13: after any weir_ingest_limit_share_update, whatever new_limit_share it
\* was given, every stored bytes_per_second is at most UINT_MAX, and a share
\* above UINT_MAX is stored as exactly UINT_MAX, not as its low 32 bits.
C13_ShareCap ==
    /\ \A k \in DOMAIN user_limit_state, d \in DataDirection :
           DirectionLimit(user_limit_state[k], d).bytes_per_second <= UINT_MAX
    /\ \A x \in DOMAIN seen_since :
           (/\ kh_exist(user_limit_state, x[1])
            /\ ShareLimit(x).limit_received
            /\ seen_since[x].new_limit_share > UINT_MAX) =>
               ShareLimit(x).bytes_per_second = UINT_MAX

\* the share a record holds was published as a value above UINT_MAX, after a
\* smaller one
C13_Witness ==
    \E x \in DOMAIN seen_since :
        /\ kh_exist(user_limit_state, x[1])
        /\ ShareLimit(x).limit_received
        /\ seen_since[x].new_limit_share = UINT_MAX + 1
        /\ seen_since[x].timestamp > 1
        /\ ShareLimit(x).bytes_per_second = UINT_MAX

(***************************************************************************)
(* The payload of one stream: s1 (a GET of u1) has its request and         *)
(* response chunks filtered while the controller publishes a download      *)
(* share for u1, the request script maps the connection to u1 and the      *)
(* controller installs a throttle policy for u1's downloads.               *)
(***************************************************************************)
PayloadAttachCalls == {[s |-> "s1", remote_addr |-> StreamAddr("s1"), meth |-> "GET"]}

PayloadEnableCalls == {[s |-> "s1", key |-> "u1", class |-> NULL, direction |-> "dwn"]}

\* chunks of 0 and 3 bytes, filtered one second after the policy was installed,
\* before and after the run time it allows has elapsed
PayloadPayloadCalls ==
    {[s |-> "s1", is_request |-> q, len |-> n,
      current_epoch |-> [sec |-> InstallSec + 1, usec |-> u]] :
        q \in BOOLEAN, n \in {0, 3}, u \in {100000, 375000}}

\* a share of 2 bytes per second and one of 3
PayloadShareCalls ==
    {[timestamp |-> 1, user_key |-> "u1", instance_id |-> InstanceId,
      direction |-> "dwn", new_limit_share |-> v] : v \in {2, 3}}

PayloadSetIpPortKey ==
    /\ bug_on = ""
    /\ get_ip_port_count_from_key(key_ip_port_count_hashmap, "u1") < MaxConns
    /\ set_ip_port_key(StreamAddr("s1").ip, StreamAddr("s1").port, "u1")
    /\ UNCHANGED <<bwVars, enfVars, elVars, aggVars, auxVars>>

PayloadSetThrottleEpoch ==
    /\ bug_on = ""
    /\ set_throttle_epoch_us("u1", 750000, RL_DOWNLOAD, <<2, 1>>,
                             [sec |-> InstallSec, usec |-> 0])
    /\ UNCHANGED <<bwVars, enfVars, elVars, aggVars, auxVars>>

PayloadNext ==
    \/ Attach(PayloadAttachCalls)
    \/ Enable(PayloadEnableCalls, MaxActiveRequests)
    \/ Headers({"s1"})
    \/ Payload(PayloadPayloadCalls)
    \/ Detach({"s1"})
    \/ IngestShare(PayloadShareCalls)
    \/ PayloadSetIpPortKey
    \/ PayloadSetThrottleEpoch
    \/ Clock({2})

SpecPayload == Init /\ [][PayloadNext]_vars

\* the struct user_direction_limit the last weir_http_payload call is limited by
PayloadLimit ==
    DirectionLimit(user_limit_state[streams[last_payload.stream].limit_key],
                   last_payload.direction)

\* C4: when weir_http_payload ran for a stream with an IPv4 source whose
\* next_allowed_send_tick was unset or expired and rl_speed_throttle did not
\* return Throttle, the bytes it forwards are the bytes_to_forward of
\* apply_bandwidth_limit(counter, limit = the user's share, requests =
\* active_requests, bytes_available = len), so not more than the ceiling of the
\* remaining quota divided by active_requests.
C4_PayloadForwardsFairShare ==
    (/\ last_payload.called
     /\ last_payload.limited
     /\ last_payload.throttle = RL_NO_THROTTLE
     /\ PayloadLimit.limit_received
     /\ PayloadLimit.active_requests >= 1) =>
        LET result == apply_bandwidth_limit(PayloadLimit.counter,
                                            PayloadLimit.bytes_per_second,
                                            PayloadLimit.active_requests,
                                            last_payload.len, now_ms)
            remain == freq_ctr_remain_period(PayloadLimit.counter, period_ms,
                                             PayloadLimit.bytes_per_second, 0, now_ms)
        IN  /\ last_payload.bytes_to_forward = result.bytes_to_forward
            /\ last_payload.bytes_to_forward * PayloadLimit.active_requests
                   < remain + PayloadLimit.active_requests

(***************************************************************************)
(* The throttle branch of weir_http_payload thread by thread: streams s1   *)
(* and s2 are GETs of u1 handled by two threads, the request script maps   *)
(* their connections to u1 and the controller installs throttle policies   *)
(* for u1, so that chunks of both streams are throttled while the clock    *)
(* advances.  A thread reads now_ms once, when it enters the callback, and *)
(* may be delayed between any two of its steps.                            *)
(***************************************************************************)
ElectAttachCalls ==
    {[s |-> s, remote_addr |-> StreamAddr(s), meth |-> "GET"] : s \in Streams}

ElectEnableCalls ==
    {[s |-> s, key |-> "u1", class |-> NULL, direction |-> "dwn"] : s \in Streams}

\* the clock readings after construction: the tick after it, the last tick
\* before a second has passed, and the ticks one and two seconds after it
ElectNowValues == {2, 1000, 1001, 2001}

\* a chunk of the response of a stream, and a chunk of the request of s2,
\* filtered while the policies throttle
ElectPayloadCalls ==
    {[s |-> s, is_request |-> FALSE, len |-> 3,
      current_epoch |-> [sec |-> InstallSec + 1, usec |-> 375000]] : s \in Streams}
    \cup {[s |-> "s2", is_request |-> TRUE, len |-> 3,
           current_epoch |-> [sec |-> InstallSec + 1, usec |-> 375000]]}

ElectSetIpPortKey ==
    \E s \in Streams :
        /\ ~kh_exist(ip_port_key_hashmap, ip_port_from_sockaddr(StreamAddr(s)))
        /\ set_ip_port_key(StreamAddr(s).ip, StreamAddr(s).port, "u1")
        /\ UNCHANGED <<bwVars, enfVars, elVars, aggVars, auxVars>>

ElectSetThrottleEpoch ==
    \E d \in DataDirection :
        /\ ~kh_exist(key_speed_epoch_hashmap[d], "u1")
        /\ set_throttle_epoch_us("u1", 750000, d, <<2, 1>>,
                                 [sec |-> InstallSec, usec |-> 0])
        /\ UNCHANGED <<bwVars, enfVars, elVars, aggVars, auxVars>>

ElectLoad ==
    \E c \in ElectPayloadCalls :
        /\ streams[c.s].data_filter
        /\ streams[c.s].phase \in (IF c.is_request THEN {"res", "fwd"} ELSE {"fwd"})
        /\ weir_http_payload_load(c.s, c.is_request, c.len, c.current_epoch)
        /\ UNCHANGED <<bwVars, aggVars, auxVars>>

ElectCas == \E s \in Streams : weir_http_payload_cas(s) /\ UNCHANGED <<bwVars, aggVars, auxVars>>

ElectLog == \E s \in Streams : weir_http_payload_log(s) /\ UNCHANGED <<bwVars, aggVars, auxVars>>

ElectNext ==
    \/ Attach(ElectAttachCalls)
    \/ Enable(ElectEnableCalls, Cardinality(Streams))
    \/ Headers(Streams)
    \/ ElectSetIpPortKey
    \/ ElectSetThrottleEpoch
    \/ ElectLoad
    \/ ElectCas
    \/ ElectLog
    \/ Clock(ElectNowValues)

SpecElect == Init /\ [][ElectNext]_vars

\* the threads whose compare-and-swap found the tick v and stored a new one
Elected(v, d) ==
    {s \in Streams : /\ payload_pc[s].pc = "swapped"
                     /\ payload_pc[s].direction = d
                     /\ payload_pc[s].next_throttle_log_tick = v}
    \cup {e.stream : e \in {x \in throttle_log : x.observed = v /\ x.direction = d}}

MaxKeyTicks == 5

\* the keys of users u and v with categories GET and PUT
Keys ==
    [m_user : {Lit.user_ \o <<117>>, Lit.user_ \o <<118>>}, m_timestamp : 0..MaxKeyTicks,
     m_cat : {<<71, 69, 84>>, <<80, 85, 84>>}]

KeyNext ==
    \E key1, key2 \in Keys :
        /\ ~key_call.called
        /\ compare_keys(key1, key2)
        /\ UNCHANGED <<thrVars, bwVars, enfVars, elVars, procVars, auxVars>>

SpecKey == Init /\ [][KeyNext]_vars

\* C16: two RedisCmdKey values compare equal if and only if they have the same
\* user and the same category and their timestamps are in the same whole
\* second, and two keys that compare equal have the same hash.
C16_SecondBucketEquality ==
    key_call.called =>
        /\ key_call.equal <=>
               /\ key_call.key1.m_user = key_call.key2.m_user
               /\ key_call.key1.m_cat = key_call.key2.m_cat
               /\ key_call.key1.m_timestamp \div TicksPerSec
                      = key_call.key2.m_timestamp \div TicksPerSec
        /\ key_call.equal => key_call.hash1 = key_call.hash2

\* two keys of one user and one category with different time_points of one
\* second were compared
C16_Witness ==
    /\ key_call.called
    /\ key_call.equal
    /\ key_call.key1.m_timestamp # key_call.key2.m_timestamp
    /\ key_call.hash1 = key_call.hash2

(***************************************************************************)
(* The consumer of the aggregator: event lines are taken off the queue     *)
(* while the clock ticks and the connection to the store comes and goes.   *)
(***************************************************************************)
\* fields of the event lines: "1:80", "u", BEL after "u", "PUT", "up", "I", "L"
AggField ==
    [ip_port |-> <<49, 58, 56, 48>>, u |-> <<117>>, bel |-> <<117, 7>>, PUT |-> <<80, 85, 84>>,
     up |-> <<117, 112>>, I |-> <<73>>, L |-> <<76>>]

\* the req line of a user with a request class and 3 active requests
ReqLine(user, class) ==
    <<Lit.req, AggField.ip_port, user, AggField.PUT, AggField.up, AggField.I, <<51>>, class>>

\* the data_xfer line of a user with a number of bytes
DataXferLine(user, bytes) == <<Lit.data_xfer, AggField.ip_port, user, AggField.up, bytes>>

\* the active_reqs line of a user with 7 active requests
ActiveReqsLine(user) == <<Lit.active_reqs, AggField.I, user, AggField.up, <<55>>>>

\* the req_end line of a user with 2 active requests
ReqEndLine(user) ==
    <<Lit.req_end, AggField.ip_port, user, AggField.PUT, AggField.up, AggField.I, <<50>>>>

Start == messageConsumerThread_start /\ UNCHANGED <<thrVars, bwVars, enfVars, elVars, key_call, auxVars>>

Consume(lines) ==
    \E buffer \in lines :
        /\ Cardinality(DOMAIN m_qos_redis_commands) < MaxEntries
        /\ \A x \in DOMAIN summed : summed[x].events < MaxEvents
        /\ messageConsumerThread_dequeue(buffer)
        /\ UNCHANGED <<thrVars, bwVars, enfVars, elVars, key_call, auxVars>>

Timeout == messageConsumerThread_timeout /\ UNCHANGED <<thrVars, bwVars, enfVars, elVars, key_call, auxVars>>

Flush == messageConsumerThread_flush /\ UNCHANGED <<thrVars, bwVars, enfVars, elVars, key_call, auxVars>>

\* the callbacks are [callback, status_ok, ok]
Drain(callbacks) ==
    \E c \in callbacks :
        /\ messageConsumerThread_drain(c.callback, c.status_ok, c.ok)
        /\ UNCHANGED <<thrVars, bwVars, enfVars, elVars, key_call, auxVars>>

Watch ==
    \E ip_changed \in BOOLEAN :
        /\ checkIfNeedsReconnect(ip_changed)
        /\ UNCHANGED <<thrVars, bwVars, enfVars, elVars, key_call, auxVars>>

Tick == tick /\ UNCHANGED <<thrVars, bwVars, enfVars, elVars, key_call, auxVars>>

\* no callback is due, the connection is made, the connection is lost
ConnectCallbacks ==
    {[callback |-> "", status_ok |-> TRUE, ok |-> TRUE],
     [callback |-> "connectCallback", status_ok |-> TRUE, ok |-> TRUE],
     [callback |-> "disconnectCallback", status_ok |-> FALSE, ok |-> TRUE]}

(***************************************************************************)
(* Requests and transfers of user u counted: req lines with and without a  *)
(* request class and data_xfer lines of 100 bytes and of "9x" bytes.       *)
(***************************************************************************)
CountLines ==
    {ReqLine(AggField.u, <<>>), ReqLine(AggField.u, AggField.L),
     DataXferLine(AggField.u, <<49, 48, 48>>), DataXferLine(AggField.u, <<57, 120>>)}

CountNext ==
    \/ Start
    \/ Consume(CountLines)
    \/ Timeout
    \/ Flush
    \/ Drain(ConnectCallbacks)
    \/ Tick

SpecCount == Init /\ [][CountNext]_vars

\* the entries of the command map for (user, second, category) x
EntriesOf(x) ==
    {k \in DOMAIN m_qos_redis_commands :
        k.m_user = x[1] /\ k.m_timestamp \div TicksPerSec = x[2] /\ k.m_cat = x[3]}

\* C14: the command map holds one entry for every (user, second, category)
\* that an event it still holds was counted under, and no other entry, and
\* the value of the entry is the sum of what those events added: 1 under the
\* verb and 1 under the non-empty request class of every req, the bytes of
\* every data_xfer under bnd_<direction>.
C14_CounterCoalescing ==
    /\ \A x \in DOMAIN summed :
           /\ Cardinality(EntriesOf(x)) = 1
           /\ \A k \in EntriesOf(x) : m_qos_redis_commands[k] = summed[x].sum
    /\ \A k \in DOMAIN m_qos_redis_commands :
           <<k.m_user, k.m_timestamp \div TicksPerSec, k.m_cat>> \in DOMAIN summed

(***************************************************************************)
(* The gauges of users u and v set by req, active_reqs and req_end lines,  *)
(* one of them with the count "9x".                                        *)
(***************************************************************************)
GaugeLines ==
    {ReqLine(AggField.u, <<>>), ActiveReqsLine(AggField.u), ReqEndLine(AggField.u),
     ActiveReqsLine(<<118>>),
     <<Lit.active_reqs, AggField.I, AggField.u, AggField.up, <<57, 120>>>>}

GaugeNext ==
    \/ Start
    \/ Consume(GaugeLines)
    \/ Timeout
    \/ Flush
    \/ Drain(ConnectCallbacks)
    \/ Tick

SpecGauge == Init /\ [][GaugeNext]_vars

\* the active-request field of a req, req_end or active_reqs line
active_requests_field(line) == IF line[1] = Lit.req THEN line[7] ELSE line[Len(line)]

\* C15: the gauge map has an entry for exactly the connection keys that a req,
\* req_end or active_reqs event was accepted for since the last flush, and the
\* entry of a key holds the active-request value of the most recent of those
\* events, however many there were.
C15_GaugeAssigned ==
    /\ DOMAIN m_qos_redis_active_reqs = DOMAIN gauged
    /\ \A key \in DOMAIN gauged :
           m_qos_redis_active_reqs[key] = from_chars(active_requests_field(gauged[key])).value

\* two or more events set the gauge of u since the last flush, the last one a
\* req_end with 2 active requests
C15_Witness ==
    /\ m_qos_not_send_count >= 2
    /\ DOMAIN m_qos_redis_active_reqs = {conn_key(AggField.up, AggField.I, AggField.u)}
    /\ last_event.accepted
    /\ last_event.line = ReqEndLine(AggField.u)
    /\ m_qos_redis_active_reqs[conn_key(AggField.up, AggField.I, AggField.u)] = 2

(***************************************************************************)
(* Flushes with and without a connection to the store: req lines with a    *)
(* request class, data_xfer lines and active_reqs lines of user u are      *)
(* consumed while the clock ticks, the connection is made, fails, is lost, *)
(* and is taken down by the watcher when the address of the store changes. *)
(***************************************************************************)
FlushLines ==
    {ReqLine(AggField.u, AggField.L), DataXferLine(AggField.u, <<53>>),
     ActiveReqsLine(AggField.u)}

\* ConnectCallbacks, the connection attempt fails, the disconnect completes
FlushCallbacks ==
    ConnectCallbacks
        \cup {[callback |-> "connectCallback", status_ok |-> FALSE, ok |-> TRUE],
              [callback |-> "disconnectCallback", status_ok |-> TRUE, ok |-> TRUE]}

FlushNext ==
    \/ Start
    \/ Consume(FlushLines)
    \/ Timeout
    \/ Flush
    \/ Drain(FlushCallbacks)
    \/ Watch
    \/ Tick

SpecFlush == Init /\ [][FlushNext]_vars

\* sendToRedisQos has just flushed with the connection in one of the states
FlushedIn(states) ==
    /\ last_flush.called
    /\ last_flush.flushed
    /\ last_flush.connection_status \in states

\* the positions of the submitted commands with the given op and key
Submitted(op, key) ==
    {i \in 1..Len(last_flush.submitted) :
        last_flush.submitted[i].op = op /\ last_flush.submitted[i].key = key}

\* C17: a flush with the connection CONNECTED submits one hincrby for every
\* entry of the command map and no other, one expire for every distinct hash
\* key of those entries and no other, each after the first hincrby of its
\* key, and one set ... ex for every entry of the gauge map and no other; both
\* maps are empty afterwards.
C17_FlushConnected ==
    FlushedIn({"CONNECTED"}) =>
        LET submitted == last_flush.submitted
            hash_keys == {ss_key(k) : k \in DOMAIN last_flush.commands}
        IN  /\ \A k \in DOMAIN last_flush.commands :
                   Cardinality({i \in Submitted("hincrby", ss_key(k)) :
                                   submitted[i].entry = k}) = 1
            /\ \A i \in 1..Len(submitted) :
                   /\ submitted[i].op \in {"hincrby", "expire", "set"}
                   /\ submitted[i].op = "hincrby" =>
                          submitted[i].entry \in DOMAIN last_flush.commands
                   /\ submitted[i].op = "expire" => submitted[i].key \in hash_keys
                   /\ submitted[i].op = "set" =>
                          submitted[i].key \in DOMAIN last_flush.active_reqs
            /\ \A h \in hash_keys :
                   /\ Cardinality(Submitted("expire", h)) = 1
                   /\ \A i \in Submitted("expire", h) :
                          \E j \in Submitted("hincrby", h) :
                              /\ j < i
                              /\ \A l \in Submitted("hincrby", h) : j <= l
            /\ \A key \in DOMAIN last_flush.active_reqs :
                   Cardinality(Submitted("set", key)) = 1
            /\ m_qos_redis_commands = kh_init
            /\ m_qos_redis_active_reqs = kh_init

\* a flush with the connection CONNECTED of three entries, two of them with
\* one hash key, and of a gauge
C17_Witness ==
    /\ FlushedIn({"CONNECTED"})
    /\ Cardinality(DOMAIN last_flush.commands) = 3
    /\ Cardinality({ss_key(k) : k \in DOMAIN last_flush.commands}) = 2
    /\ DOMAIN last_flush.active_reqs # {}

\* C18: a flush with the connection not CONNECTED submits no command, removes
\* from the command map exactly the entries whose timestamp is more than
\* m_redis_qos_ttl seconds old and leaves the others as they were, and empties
\* the gauge map.
C18_FlushNotConnected ==
    FlushedIn({"DISCONNECTED", "CONNECTING", "DISCONNECTING"}) =>
        /\ last_flush.submitted = <<>>
        /\ DOMAIN m_qos_redis_commands =
               {k \in DOMAIN last_flush.commands :
                   ~(last_flush.cutoff_now - k.m_timestamp > m_redis_qos_ttl * TicksPerSec)}
        /\ \A k \in DOMAIN m_qos_redis_commands :
               m_qos_redis_commands[k] = last_flush.commands[k]
        /\ m_qos_redis_active_reqs = kh_init

\* a flush without a connection removed an old entry, kept a young one and
\* dropped a gauge
C18_Witness ==
    /\ FlushedIn({"DISCONNECTED", "CONNECTING", "DISCONNECTING"})
    /\ DOMAIN m_qos_redis_commands # {}
    /\ DOMAIN last_flush.commands \ DOMAIN m_qos_redis_commands # {}
    /\ DOMAIN last_flush.active_reqs # {}

\* C19: a flush with the connection not CONNECTED calls connect() and records
\* the time of the call if and only if more than m_check_conn_interval has
\* passed since the time recorded for the consumer's last call, and a call
\* made with the connection DISCONNECTED starts a connection attempt.
C19_ReconnectRate ==
    FlushedIn({"DISCONNECTED", "CONNECTING", "DISCONNECTING"}) =>
        LET elapsed == last_flush.mono_now - last_flush.last_redis_connect_time
        IN  /\ last_flush.connect <=> elapsed > m_check_conn_interval * TicksPerSec
            /\ m_last_redis_connect_time =
                   IF last_flush.connect THEN last_flush.mono_now
                   ELSE last_flush.last_redis_connect_time
            /\ ~last_flush.connect => m_connection_status = last_flush.connection_status
            /\ last_flush.connect /\ last_flush.connection_status = "DISCONNECTED" =>
                   m_connection_status \in {"CONNECTING", "DISCONNECTED"}

\* the first flush after the interval has passed calls connect(), and the
\* connection attempt starts
C19_Witness ==
    /\ FlushedIn({"DISCONNECTED"})
    /\ last_flush.connect
    /\ last_flush.mono_now - last_flush.last_redis_connect_time
           = m_check_conn_interval * TicksPerSec + 1
    /\ m_connection_status = "CONNECTING"

(***************************************************************************)
(* Events of a user key with a BEL character in it, one of each shape,     *)
(* among events of user u.                                                 *)
(***************************************************************************)
PrintableLines ==
    {ReqLine(AggField.bel, AggField.L), ReqEndLine(AggField.bel),
     DataXferLine(AggField.bel, <<53>>), ActiveReqsLine(AggField.bel),
     ReqLine(AggField.u, <<>>), DataXferLine(AggField.u, <<53>>)}

PrintableNext ==
    \/ Start
    \/ Consume(PrintableLines)
    \/ Timeout
    \/ Flush
    \/ Drain(ConnectCallbacks)
    \/ Tick

SpecPrintable == Init /\ [][PrintableNext]_vars

\* C20: when the consumer processes a req, req_end, data_xfer or active_reqs
\* event whose user_key has a character that is not printable ASCII, the
\* command map and the gauge map are left as they were.
C20_NonPrintableDiscarded ==
    [][(/\ consumer_pc = "dequeue"
        /\ consumer_pc' = "flush"
        /\ Len(last_event'.line) >= 3
        /\ last_event'.line[1] \in {Lit.req, Lit.req_end, Lit.data_xfer, Lit.active_reqs}
        /\ \E i \in 1..Len(last_event'.line[3]) : ~isprint(last_event'.line[3][i]))
           => /\ m_qos_redis_commands' = m_qos_redis_commands
              /\ m_qos_redis_active_reqs' = m_qos_redis_active_reqs]_vars

(***************************************************************************)
(* StringSplit objects made of any input of 'a' and ',' characters and the *)
(* delimiters ",", ",," and "", and next() called on them again and again. *)
(***************************************************************************)
\* the longest input, and the most calls of next() on one object
MaxInput == 4
MaxNext == 6

SplitInputs == UNION {[1..n -> {97, 44}] : n \in 0..MaxInput}

SplitDelimiters == {<<44>>, <<44, 44>>, <<>>}

SplitConstruct ==
    /\ ~split.constructed
    /\ \E input \in SplitInputs, delimiter \in SplitDelimiters :
           split' = StringSplit(input, delimiter)
    /\ UNCHANGED <<thrVars, bwVars, enfVars, elVars, aggVars, dump, receiver, threads, rsc, net, mt>>

SplitCall ==
    /\ split.constructed
    /\ Len(split.returned) < MaxNext
    /\ split' = StringSplit_next(split)
    /\ UNCHANGED <<thrVars, bwVars, enfVars, elVars, aggVars, dump, receiver, threads, rsc, net, mt>>

SplitNext == SplitConstruct \/ SplitCall

SpecSplit == Init /\ [][SplitNext]_vars

\* the substrings of input between consecutive occurrences of a non-empty
\* delimiter, the occurrences taken from left to right without overlap
RECURSIVE Segments(_, _)
Segments(input, delimiter) ==
    LET occurrences == {i \in 1..(Len(input) - Len(delimiter) + 1) :
                           SubSeq(input, i, i + Len(delimiter) - 1) = delimiter}
        first == CHOOSE i \in occurrences : \A j \in occurrences : i <= j
    IN  IF occurrences = {} THEN <<input>>
        ELSE <<SubSeq(input, 1, first - 1)>>
                 \o Segments(SubSeq(input, first + Len(delimiter), Len(input)), delimiter)

\* C28: with a non-empty delimiter, the calls of next() return the segments of
\* the input in order, and every call after the last segment returns the
\* empty string.
C28_NextReturnsSegments ==
    split.constructed /\ split.m_delimiter # <<>> =>
        \A i \in 1..Len(split.returned) :
            split.returned[i] =
                IF i <= Len(Segments(split.m_input, split.m_delimiter))
                THEN Segments(split.m_input, split.m_delimiter)[i]
                ELSE <<>>

\* "a,,," split on ",," gave "a", "," and then the empty string twice
C28_Witness ==
    /\ split.constructed
    /\ split.m_input = <<97, 44, 44, 44>>
    /\ split.m_delimiter = <<44, 44>>
    /\ split.returned = <<<<97>>, <<44>>, <<>>, <<>>>>

\* C29: finishedSuccessfully() is true exactly when the delimiter is not
\* empty and the calls of next() made so far are as many as the input has
\* segments: not fewer (segments remain) and not more (an excess call).
C29_FinishedExactly ==
    split.constructed =>
        (StringSplit_finishedSuccessfully(split)
            <=> /\ split.m_delimiter # <<>>
                /\ Len(split.returned) = Len(Segments(split.m_input, split.m_delimiter)))

(***************************************************************************)
(* "show weir limits" on tables of DumpSlots hash slots with the records   *)
(* of u1 and u2 in any of them, the emit function called again while it    *)
(* returns 0, with an applet buffer that has room for 0 to DumpRoom chunks *)
(* at each call.                                                           *)
(***************************************************************************)
DumpSlots == 3
DumpRoom == 3
\* no call is made once the output has this many chunks
MaxEmitted == 6

\* the layouts of the table: no key is in two slots
DumpLayouts ==
    {slots \in [1..DumpSlots -> Users \cup {NULL}] :
        \A i, j \in 1..DumpSlots : slots[i] = slots[j] /\ slots[i] # NULL => i = j}

DumpCommand ==
    /\ ~dump.running
    /\ \E slots \in DumpLayouts : dump' = show_weir_limits(slots)
    /\ UNCHANGED <<thrVars, bwVars, enfVars, elVars, aggVars, split, receiver, threads, rsc, net, mt>>

DumpCall ==
    /\ dump.running
    /\ dump.ret = 0
    /\ Len(dump.emitted) < MaxEmitted
    /\ \E room \in 0..DumpRoom : dump' = cli_show_weir_limits(dump, room)
    /\ UNCHANGED <<thrVars, bwVars, enfVars, elVars, aggVars, split, receiver, threads, rsc, net, mt>>

DumpNext == DumpCommand \/ DumpCall

SpecDump == Init /\ [][DumpNext]_vars

\* how many chunks of the output are x
Emitted(x) == Cardinality({i \in 1..Len(dump.emitted) : dump.emitted[i] = x})

\* C30: when the emit function has returned 1, the output has the header
\* once and one row for every record of the table, each record once.
C30_ResumableDump ==
    dump.running /\ dump.ret = 1 =>
        /\ Emitted("header") = 1
        /\ \A i \in 1..DumpSlots : dump.slots[i] # NULL => Emitted(dump.slots[i]) = 1

(***************************************************************************)
(* The receive loop on datagrams of every length from an error to the      *)
(* length of the buffer: event lines of u, a log line, and a datagram of   *)
(* newlines, while the consumer takes messages off the queue or does not.  *)
(***************************************************************************)
Datagrams ==
    [recv_len : -1..buffer_len,
     data_start : {NULL, DataXferLine(AggField.u, <<53>>), ActiveReqsLine(AggField.u)},
     blank : {FALSE}]
        \cup [recv_len : 1..buffer_len, data_start : {NULL}, blank : {TRUE}]

Receive ==
    /\ \E datagram \in Datagrams : msgProducerThread(datagram)
    /\ UNCHANGED <<thrVars, bwVars, enfVars, elVars, aggVars, split, dump, threads, rsc, net, mt>>

Dequeue ==
    /\ wait_dequeue_timed
    /\ UNCHANGED <<thrVars, bwVars, enfVars, elVars, aggVars, split, dump, threads, rsc, net, mt>>

ReceiveNext == Receive \/ Dequeue

SpecReceive == Init /\ [][ReceiveNext]_vars

\* the last datagram was of zero length, or as long as the buffer, or an
\* event that found the queue full
Resilience(last) ==
    \/ last.datagram.recv_len = 0
    \/ last.datagram.recv_len = buffer_len
    \/ /\ last.datagram.recv_len > 0
       /\ last.datagram.data_start # NULL
       /\ Len(last.queue) = msg_queue_size

\* C27: the queue never holds more than msg_queue_size messages; a datagram
\* of zero length, one as long as the receive buffer, and an event that finds
\* the queue full leave the queue as it was and the loop at recvfrom; and an
\* event shorter than the buffer that comes after such a datagram and finds
\* room in the queue is enqueued at its end.
C27_ReceiverResilience ==
    /\ Len(receiver.queue) <= msg_queue_size
    /\ receiver.last.called /\ Resilience(receiver.last) =>
           /\ receiver.queue = receiver.last.queue
           /\ receiver.pc = "recvfrom"
    /\ (/\ receiver.last.called
        /\ receiver.last.after \in {"empty", "too big", "queue full"}
        /\ receiver.last.datagram.recv_len \in 1..(buffer_len - 1)
        /\ receiver.last.datagram.data_start # NULL
        /\ Len(receiver.last.queue) < msg_queue_size)
           => receiver.queue = Append(receiver.last.queue, receiver.last.datagram.data_start)

\* an event was dropped because the queue was full
C27_Witness ==
    /\ receiver.last.called
    /\ receiver.last.outcome = "queue full"
    /\ Len(receiver.queue) = msg_queue_size

(***************************************************************************)
(* A Processor started (or not) and destroyed while its threads run and    *)
(* the time of the watcher's wait passes.                                  *)
(***************************************************************************)
ThreadsStart ==
    /\ threads.consumer = "none"
    /\ threads.destructor = "none"
    /\ threads' = [threads EXCEPT !.consumer = "loop", !.watcher = "loop"]   \* Processor::start()
    /\ UNCHANGED <<thrVars, bwVars, enfVars, elVars, aggVars, split, dump, receiver, rsc, net, mt>>

ThreadsConsumer ==
    /\ threads.consumer \in {"loop", "dequeue", "upkeep", "drain"}
    /\ threads' = messageConsumerThread_loop(threads)
    /\ UNCHANGED <<thrVars, bwVars, enfVars, elVars, aggVars, split, dump, receiver, rsc, net, mt>>

ThreadsWatcher ==
    /\ threads.watcher \in {"loop", "predicate", "wait", "check"}
    /\ \E woken \in BOOLEAN : threads' = checkRedisServerConnThread(threads, woken)
    /\ UNCHANGED <<thrVars, bwVars, enfVars, elVars, aggVars, split, dump, receiver, rsc, net, mt>>

ThreadsTick ==
    /\ threads.remaining > 0
    /\ threads' = [threads EXCEPT !.remaining = @ - 1]
    /\ UNCHANGED <<thrVars, bwVars, enfVars, elVars, aggVars, split, dump, receiver, rsc, net, mt>>

ThreadsDestroy ==
    /\ threads.destructor # "members"
    /\ threads' = Processor_destructor(threads)
    /\ UNCHANGED <<thrVars, bwVars, enfVars, elVars, aggVars, split, dump, receiver, rsc, net, mt>>

ThreadsNext == ThreadsStart \/ ThreadsConsumer \/ ThreadsWatcher \/ ThreadsTick \/ ThreadsDestroy

SpecThreads == Init /\ [][ThreadsNext]_vars

\* C26: when the destructor of a started Processor waits to join a thread,
\* the thread has been signalled to stop (it leaves its loop only then), so
\* that the join, and with it the destructor, completes.
C26_ShutdownTerminates ==
    /\ threads.destructor = "join consumer" /\ threads.consumer # "none" =>
           threads.consumer_stop
    /\ threads.destructor = "join watcher" /\ threads.watcher # "none" =>
           threads.watcher_stop

(***************************************************************************)
(* The connection of a started Processor: the consumer's thread connects,  *)
(* runs the callbacks and reconnectIfNeeded, the watcher's thread runs     *)
(* checkIfNeedsReconnect, the host's addresses change, connections fail    *)
(* and drop.  faults is the number of failures, drops and address changes  *)
(* still to come: with none left every attempt succeeds at an address of   *)
(* the host.                                                               *)
(***************************************************************************)
Addresses == {"10.0.0.1", "10.0.0.2"}

\* how a call of redisAsyncConnect with redisLibevAttach may end
Attempts == IF net.faults > 0 THEN {"ok", "no context", "err", "no attach"} ELSE {"ok"}

Operation(c) == [c EXCEPT !.calls = NoCalls, !.trail = <<>>]

Assigned(c) == {c.trail[i] : i \in 1..Len(c.trail)}

\* the operation op with its inputs took the connection to c
Done(op, c, watcher, input) ==
    /\ rsc' = c
    /\ net' = [net EXCEPT
                  !.faults = IF \/ c.calls.redisAsyncConnect > 0 /\ input.attempt # "ok"
                                \/ input.fault
                             THEN @ - 1 ELSE @,
                  !.watcher = watcher,
                  !.started = TRUE,
                  !.seen = IF "CONNECTED" \in Assigned(c) THEN {} ELSE @ \cup Assigned(c),
                  !.route = IF "CONNECTED" \in Assigned(c) THEN net.seen ELSE @,
                  !.last = [op |-> op, before |-> rsc,
                            input |-> [input EXCEPT
                                !.attempt = IF c.calls.redisAsyncConnect > 0 THEN @ ELSE ""]]]
    /\ UNCHANGED <<thrVars, bwVars, enfVars, elVars, aggVars, split, dump, receiver, threads, mt>>

NoInput ==
    [attempt |-> "", fault |-> FALSE, status_ok |-> TRUE, peer |-> "", sync |-> FALSE,
     entered |-> FALSE, rv4 |-> FALSE, rv6 |-> FALSE, addrs |-> {}, read_ip |-> ""]

\* a call of connect() may be made: the counters stay within MaxConnects, and a
\* call that connects nothing leaves room for one that does
Room(connects) ==
    rsc.m_total_conns_requested + (IF connects THEN 0 ELSE 1) < MaxConnects

\* messageConsumerThread's prologue
ConnStart ==
    /\ ~net.started
    /\ \E a \in Attempts :
           Done("connect",
                RedisServerConnection_connect(Operation(rsc), a # "no context", a = "err",
                                              a # "no attach"),
                net.watcher, [NoInput EXCEPT !.attempt = a])

\* sendToRedisQos while connected() is false and the interval has passed
ConnTimed ==
    /\ net.started /\ ~rsc.threw
    /\ rsc.m_connection_status # "CONNECTED"
    /\ Room(rsc.m_connection_status = "DISCONNECTED")
    /\ \E a \in Attempts :
           Done("connect",
                RedisServerConnection_connect(Operation(rsc), a # "no context", a = "err",
                                              a # "no attach"),
                net.watcher, [NoInput EXCEPT !.attempt = a])

\* drainRedisCmdPipeline: the attempt has ended and connectCallback runs; an
\* assignment to m_redis_ip while the watcher compares is a data race
ConnConnected ==
    /\ net.started /\ ~rsc.threw
    /\ rsc.m_connection_status = "CONNECTING"
    /\ \E status_ok \in IF net.faults > 0 THEN BOOLEAN ELSE {TRUE} :
       \E peer \in IF net.faults > 0 THEN Addresses ELSE net.host :
           Done("connectCallback", connectCallback(Operation(rsc), status_ok, peer),
                IF status_ok /\ net.watcher = "resolving" THEN "raced" ELSE net.watcher,
                [NoInput EXCEPT !.status_ok = status_ok, !.fault = ~status_ok,
                                !.peer = IF status_ok THEN peer ELSE ""])

\* drainRedisCmdPipeline: the connection failed and disconnectCallback runs
\* with an error
ConnDrop ==
    /\ net.started /\ ~rsc.threw
    /\ rsc.m_connection_status \in {"CONNECTED", "DISCONNECTING"}
    /\ net.faults > 0
    /\ Done("disconnectCallback", disconnectCallback(Operation(rsc), FALSE, TRUE, FALSE, TRUE),
            net.watcher, [NoInput EXCEPT !.status_ok = FALSE, !.fault = TRUE])

\* drainRedisCmdPipeline: the disconnect reconnectIfNeeded asked for is
\* through and disconnectCallback runs with REDIS_OK
ConnClosed ==
    /\ net.started /\ ~rsc.threw
    /\ rsc.m_connection_status = "DISCONNECTING"
    /\ Room(TRUE)
    /\ \E a \in Attempts :
           Done("disconnectCallback",
                disconnectCallback(Operation(rsc), TRUE, a # "no context", a = "err",
                                   a # "no attach"),
                net.watcher, [NoInput EXCEPT !.attempt = a])

\* messageConsumerThread: reconnectIfNeeded()
ConnReconnect ==
    /\ net.started /\ ~rsc.threw
    /\ \E sync \in IF rsc.m_needs_reconnect /\ rsc.m_connection_status = "CONNECTED"
                   THEN BOOLEAN ELSE {FALSE} :
           /\ sync => Room(TRUE)
           /\ \E a \in IF sync THEN Attempts ELSE {"ok"} :
                  Done("reconnectIfNeeded",
                       RedisServerConnection_reconnectIfNeeded(Operation(rsc), sync,
                           a # "no context", a = "err", a # "no attach"),
                       net.watcher, [NoInput EXCEPT !.attempt = a, !.sync = sync])

\* checkRedisServerConnThread: checkIfNeedsReconnect() begins
ConnWatch ==
    /\ net.started /\ ~rsc.threw
    /\ net.watcher = "idle"
    /\ LET call == RedisServerConnection_checkIfNeedsReconnect(Operation(rsc), FALSE, FALSE,
                                                              FALSE, {}, "")
       IN  Done("checkIfNeedsReconnect", call.c, IF call.resolve THEN "resolving" ELSE "idle",
                NoInput)

\* checkRedisServerConnThread: checkIfNeedsReconnect() resolves the host,
\* compares and returns; after a race the comparison reads any value
ConnResolve ==
    /\ net.started /\ ~rsc.threw
    /\ net.watcher \in {"resolving", "raced"}
    /\ \E rv4 \in BOOLEAN, rv6 \in BOOLEAN :
       \E read_ip \in IF net.watcher = "raced" THEN Addresses \cup {"", rsc.m_redis_ip}
                      ELSE {rsc.m_redis_ip} :
           /\ ~rv4 /\ ~rv6 => net.faults > 0
           /\ rv4 => ~rv6
           /\ Done("checkIfNeedsReconnect",
                   RedisServerConnection_checkIfNeedsReconnect(Operation(rsc), TRUE, rv4, rv6,
                                                              net.host, read_ip).c,
                   "idle",
                   [NoInput EXCEPT !.entered = TRUE, !.rv4 = rv4, !.rv6 = rv6,
                                   !.addrs = net.host, !.read_ip = read_ip])

\* the host's name comes to resolve to other addresses
ConnDns ==
    /\ net.faults > 0
    /\ \E host \in (SUBSET Addresses) \ {{}, net.host} :
           /\ net' = [net EXCEPT !.host = host, !.faults = @ - 1]
           /\ UNCHANGED rsc
    /\ UNCHANGED <<thrVars, bwVars, enfVars, elVars, aggVars, split, dump, receiver, threads, mt>>

ConnNext ==
    \/ ConnStart \/ ConnTimed \/ ConnConnected \/ ConnDrop \/ ConnClosed
    \/ ConnReconnect \/ ConnWatch \/ ConnResolve \/ ConnDns

SpecConn == Init /\ [][ConnNext]_vars

\* C21: a call of connect() by the consumer adds one to the connections
\* requested; in CONNECTING, CONNECTED or DISCONNECTING it calls no
\* redisAsyncConnect and leaves the status, the context and the connections
\* made as they were; in DISCONNECTED with a context, no error and the loop
\* attached it leaves the status CONNECTING.
C21_ConnectGuard ==
    net.last.op = "connect" =>
        LET before == net.last.before
        IN  /\ rsc.m_total_conns_requested = before.m_total_conns_requested + 1
            /\ before.m_connection_status # "DISCONNECTED" =>
                   /\ rsc.calls.redisAsyncConnect = 0
                   /\ rsc.m_connection_status = before.m_connection_status
                   /\ rsc.m_async_context = before.m_async_context
                   /\ rsc.m_total_conns_made = before.m_total_conns_made
            /\ before.m_connection_status = "DISCONNECTED" /\ net.last.input.attempt = "ok" =>
                   rsc.m_connection_status = "CONNECTING"

C21_Witness ==
    /\ net.last.op = "connect"
    /\ net.last.before.m_connection_status = "DISCONNECTING"
    /\ net.last.before.m_async_context # 0
    /\ rsc.m_total_conns_requested = net.last.before.m_total_conns_requested + 1

\* C22: disconnectCallback, in whatever status it runs, sets the status
\* DISCONNECTED, clears the context and adds one to the connection drops; with
\* REDIS_OK it calls connect() at once, which calls redisAsyncConnect; with an
\* error it calls nothing and leaves the client DISCONNECTED, and a
\* DISCONNECTED client leaves that status only by a connect() of the consumer.
C22_DisconnectCallback ==
    /\ [](net.last.op = "disconnectCallback" =>
            LET before == net.last.before
            IN  /\ rsc.trail # <<>> /\ rsc.trail[1] = "DISCONNECTED"
                /\ rsc.m_total_conn_drops = before.m_total_conn_drops + 1
                /\ rsc.m_async_context \in {0, rsc.m_total_conns_made} \ {before.m_async_context}
                /\ net.last.input.status_ok =>
                       /\ rsc.m_total_conns_requested = before.m_total_conns_requested + 1
                       /\ rsc.m_total_conns_made = before.m_total_conns_made + 1
                       /\ rsc.calls.redisAsyncConnect = 1
                /\ ~net.last.input.status_ok =>
                       /\ rsc.m_total_conns_requested = before.m_total_conns_requested
                       /\ rsc.calls.redisAsyncConnect = 0
                       /\ rsc.m_connection_status = "DISCONNECTED"
                       /\ rsc.m_async_context = 0)
    /\ [][rsc.m_connection_status = "DISCONNECTED" /\ rsc'.m_connection_status # "DISCONNECTED"
              => net'.last.op = "connect"]_vars

C22_Witness ==
    /\ net.last.op = "disconnectCallback"
    /\ ~net.last.input.status_ok
    /\ net.last.before.m_connection_status = "CONNECTED"
    /\ rsc.m_connection_status = "DISCONNECTED"

\* C23: a call of checkIfNeedsReconnect that finds the status other than
\* CONNECTED calls no getaddrinfo and leaves the flag as it was; one that
\* resolves the host (AF_INET, or AF_INET6 after AF_INET failed) leaves the
\* flag set exactly when no resolved address equals m_redis_ip; one for which
\* both resolutions fail leaves the flag as it was.
C23_CheckNeedsReconnect ==
    net.last.op = "checkIfNeedsReconnect" =>
        LET before == net.last.before
            input == net.last.input
        IN  /\ ~input.entered /\ before.m_connection_status # "CONNECTED" =>
                   /\ net.watcher = "idle"
                   /\ rsc.calls.getaddrinfo = 0
                   /\ rsc.m_needs_reconnect = before.m_needs_reconnect
            /\ input.entered /\ (input.rv4 \/ input.rv6) =>
                   /\ rsc.calls.getaddrinfo = (IF input.rv4 THEN 1 ELSE 2)
                   /\ rsc.m_needs_reconnect = (\A a \in input.addrs : a # rsc.m_redis_ip)
            /\ input.entered /\ ~input.rv4 /\ ~input.rv6 =>
                   rsc.m_needs_reconnect = before.m_needs_reconnect

\* C24: reconnectIfNeeded with the flag set and the status CONNECTED assigns
\* DISCONNECTING, adds one to the reconnects and calls redisAsyncDisconnect
\* once; with the flag set in another status it calls no redisAsyncDisconnect
\* and leaves the status and the reconnects as they were; either way the
\* flag is clear when the call returns.  With the flag clear it changes
\* nothing.  DISCONNECTING is assigned only there, coming from CONNECTED.
C24_ReconnectIfNeeded ==
    /\ net.last.op = "reconnectIfNeeded" =>
           LET before == net.last.before
           IN  /\ before.m_needs_reconnect /\ before.m_connection_status = "CONNECTED" =>
                      /\ rsc.trail # <<>> /\ rsc.trail[1] = "DISCONNECTING"
                      /\ ~net.last.input.sync => rsc.m_connection_status = "DISCONNECTING"
                      /\ rsc.m_total_reconnects = before.m_total_reconnects + 1
                      /\ rsc.calls.redisAsyncDisconnect = 1
                      /\ ~rsc.threw => ~rsc.m_needs_reconnect
               /\ before.m_needs_reconnect /\ before.m_connection_status # "CONNECTED" =>
                      /\ rsc.calls.redisAsyncDisconnect = 0
                      /\ rsc.m_connection_status = before.m_connection_status
                      /\ rsc.m_total_reconnects = before.m_total_reconnects
                      /\ ~rsc.m_needs_reconnect
               /\ ~before.m_needs_reconnect => rsc = Operation(before)
    /\ \A i \in 1..Len(rsc.trail) :
           rsc.trail[i] = "DISCONNECTING" =>
               /\ i = 1
               /\ net.last.op = "reconnectIfNeeded"
               /\ net.last.before.m_connection_status = "CONNECTED"

C24_Witness ==
    /\ net.last.op = "reconnectIfNeeded"
    /\ net.last.before.m_needs_reconnect
    /\ net.last.before.m_connection_status = "CONNECTED"
    /\ rsc.m_connection_status = "DISCONNECTING"
    /\ rsc.m_total_reconnects = 1

(***************************************************************************)
(* The same connection where the threads keep running: the watcher's loop  *)
(* calls checkIfNeedsReconnect every m_check_conn_interval and the call    *)
(* returns, the consumer's loop calls drainRedisCmdPipeline and            *)
(* reconnectIfNeeded in every round, and the transport brings each         *)
(* connection attempt and each disconnect to its callback.                 *)
(***************************************************************************)
SpecConnLive ==
    /\ Init /\ [][ConnNext]_vars
    /\ WF_vars(ConnWatch) /\ WF_vars(ConnResolve)
    /\ WF_vars(ConnReconnect) /\ WF_vars(ConnClosed) /\ WF_vars(ConnConnected)

\* the client is connected at an address the host no longer resolves to, and
\* from now on resolutions and connection attempts succeed
IpChanged ==
    /\ ~rsc.threw
    /\ rsc.m_connection_status = "CONNECTED"
    /\ rsc.m_redis_ip \notin net.host
    /\ net.faults = 0
    /\ rsc.m_total_conns_requested < MaxConnects

\* C25: a client CONNECTED with a peer address that the host from then on
\* does not resolve to is in the end CONNECTED again, having been
\* DISCONNECTING and DISCONNECTED on the way, and m_redis_ip is then the
\* address of the new session's peer.
C25_ReconnectOnIpChange ==
    IpChanged ~>
        /\ rsc.m_connection_status = "CONNECTED"
        /\ net.last.op = "connectCallback"
        /\ rsc.m_redis_ip = net.last.input.peer
        /\ rsc.m_redis_ip \in net.host
        /\ {"DISCONNECTING", "DISCONNECTED"} \subseteq net.route

C25_Witness ==
    /\ rsc.m_connection_status = "CONNECTED"
    /\ net.last.op = "connectCallback"
    /\ net.faults = 0
    /\ rsc.m_redis_ip = "10.0.0.2"
    /\ net.last.before.m_redis_ip = "10.0.0.1"
    /\ rsc.m_total_reconnects = 1
    /\ {"DISCONNECTING", "DISCONNECTED"} \subseteq net.route

(***************************************************************************)
(* The throttle table's two maps of connections, under SpecThrottle.       *)
(***************************************************************************)
\* the ip_port entries that are mapped to the user key
MappedTo(key) == {p \in DOMAIN ip_port_key_hashmap : ip_port_key_hashmap[p] = key}

\* C31: after any calls of set_ip_port_key and rl_request_end each user's
\* connection count is the number of ip_port entries mapped to the user, and
\* the user has an entry in the count map exactly when that number is positive.
C31_ConnectionCountConsistency ==
    \A key \in Users :
        /\ kh_exist(key_ip_port_count_hashmap, key) <=> MappedTo(key) # {}
        /\ kh_exist(key_ip_port_count_hashmap, key) =>
               key_ip_port_count_hashmap[key] = Cardinality(MappedTo(key))

(***************************************************************************)
(* The enforcer's assertions, under Spec.                                  *)
(***************************************************************************)
\* C33: whatever samples the activate-weir rules carry and in whatever order
\* the host runs enable, headers, payload and detach, no WEIR_BUG_ON aborts
\* the process: a stream whose enabled flag is set has its user_limit, its
\* limit_key and its bandwidth_limit_direction, and a stream whose payload is
\* filtered is enabled.
C33_AssertionsHold ==
    /\ bug_on = ""
    /\ \A s \in Streams :
           /\ streams[s].enabled =>
                  /\ streams[s].limit # 0
                  /\ streams[s].limit_key # NULL
                  /\ streams[s].bandwidth_limit_direction # NULL
           /\ streams[s].data_filter => streams[s].enabled

(***************************************************************************)
(* The store client's context pointer, under SpecConn.                     *)
(***************************************************************************)
\* C34: whenever the connection status is DISCONNECTED the async context
\* pointer is null, after every outcome of a connection attempt and of the
\* two callbacks, so the assertion that connect() makes before it starts an
\* attempt cannot fail.
C34_DisconnectedHasNoContext ==
    rsc.m_connection_status = "DISCONNECTED" => rsc.m_async_context = 0

(***************************************************************************)
(* Malformed event lines among well-formed ones: a data_xfer line with a   *)
(* field missing, with a sixth field, with a delimiter after its last      *)
(* field, with the bytes "9x" and "x9", and an active_reqs line with the   *)
(* count "9x".                                                             *)
(***************************************************************************)
MalformedLines ==
    {DataXferLine(AggField.u, <<53>>), ActiveReqsLine(AggField.u),
     <<Lit.data_xfer, AggField.ip_port, AggField.u, AggField.up>>,
     DataXferLine(AggField.u, <<53>>) \o <<AggField.L>>,
     DataXferLine(AggField.u, <<53>>) \o <<(<<>>)>>,
     DataXferLine(AggField.u, <<57, 120>>),
     DataXferLine(AggField.u, <<120, 57>>),
     <<Lit.active_reqs, AggField.I, AggField.u, AggField.up, <<57, 120>>>>}

MalformedNext ==
    \/ Start
    \/ Consume(MalformedLines)
    \/ Timeout
    \/ Flush
    \/ Drain(ConnectCallbacks)
    \/ Tick

SpecMalformed == Init /\ [][MalformedNext]_vars

\* the number of fields that the event of a prefix has
FieldCount(line) ==
    IF line[1] = Lit.req THEN 8 ELSE IF line[1] = Lit.req_end THEN 7 ELSE 5

\* a string that is a decimal integer from its first to its last character
IsDecimal(str) ==
    LET body == IF str # <<>> /\ str[1] = 45 THEN Tail(str) ELSE str
    IN  body # <<>> /\ \A i \in 1..Len(body) : body[i] >= 48 /\ body[i] <= 57

\* a line with too few or too many fields, or with a count or bytes field
\* that is not a decimal integer
Malformed(line) ==
    \/ Len(line) # FieldCount(line)
    \/ ~IsDecimal(active_requests_field(line))

\* C36: when the consumer takes a malformed event off the queue (wrong number
\* of fields, a delimiter after the last field, a count or bytes field that
\* is not entirely a decimal integer), the command map, the gauge map and the
\* counter of pending events stay as they were.
C36_MalformedDropped ==
    [][(consumer_pc = "dequeue" /\ consumer_pc' = "flush" /\ Malformed(last_event'.line))
          => UNCHANGED <<m_qos_redis_commands, m_qos_redis_active_reqs,
                         m_qos_not_send_count>>]_vars

(***************************************************************************)
(* The user-limit sweep over time: streams s1 (a GET of u1) and s2 (a PUT  *)
(* of u2) attach, are enabled, have their headers filtered and             *)
(* detach while the clock moves through readings around the grace period   *)
(* and the cleanup interval.                                               *)
(***************************************************************************)
\* two requests may end a tick apart before the first cleanup tick, which is
\* 5000 ms after the first of them; the second cleanup tick lies 30 s later
SweepNowValues ==
    {1 + USERMAP_CLEANUP_INTERVAL_MS - USERMAP_CLEANUP_MIN_MS_SINCE_DISCONNECT,
     2 + USERMAP_CLEANUP_INTERVAL_MS - USERMAP_CLEANUP_MIN_MS_SINCE_DISCONNECT,
     1 + USERMAP_CLEANUP_INTERVAL_MS,
     2 * USERMAP_CLEANUP_INTERVAL_MS,
     1 + 2 * USERMAP_CLEANUP_INTERVAL_MS}

SweepAttachCalls ==
    {[s |-> "s1", remote_addr |-> StreamAddr("s1"), meth |-> "GET"],
     [s |-> "s2", remote_addr |-> StreamAddr("s2"), meth |-> "PUT"]}

SweepEnableCalls ==
    {[s |-> "s1", key |-> "u1", class |-> "LISTBUCKETS", direction |-> "dwn"],
     [s |-> "s2", key |-> "u2", class |-> "PUTOBJECT", direction |-> "up"]}

SweepNext ==
    \/ Attach(SweepAttachCalls)
    \/ Enable(SweepEnableCalls, MaxActiveRequests)
    \/ Headers(Streams)
    \/ Detach(Streams)
    \/ Clock(SweepNowValues)

SpecSweep == Init /\ [][SweepNext]_vars

\* a record without active requests whose last request ended at least the
\* grace period before now
Due(limit, now) ==
    /\ limit.download.active_requests <= 0
    /\ limit.upload.active_requests <= 0
    /\ now - limit.last_request_end_tick >= USERMAP_CLEANUP_MIN_MS_SINCE_DISCONNECT

\* C37: a sweep of the user-limit table removes exactly the records that have
\* no active request in either direction and whose last request ended at
\* least 5000 ms ago, and leaves every other record as it was (the record of
\* the stream being enabled has just been counted and stays); a sweep happens
\* only in a weir_enable_filter call that enables a stream, no other step
\* removes a record, and a sweep runs no sooner than 30 s after the sweep
\* before it (or after construction), which is when next_cleanup_tick was set.
C37_UserLimitSweep ==
    [][LET by == last_sweep'.by
           key == streams'[by].limit_key
       IN  IF last_sweep'.ran
           THEN /\ ~streams[by].enabled /\ streams'[by].enabled
                /\ now_ms' = now_ms
                /\ now_ms - (next_cleanup_tick - USERMAP_CLEANUP_INTERVAL_MS)
                       >= USERMAP_CLEANUP_INTERVAL_MS
                /\ next_cleanup_tick' = now_ms + USERMAP_CLEANUP_INTERVAL_MS
                /\ DOMAIN user_limit_state' \subseteq DOMAIN user_limit_state \cup {key}
                /\ key \in DOMAIN user_limit_state'
                /\ ~Due(user_limit_state'[key], now_ms)
                /\ last_sweep'.removed = DOMAIN user_limit_state \ DOMAIN user_limit_state'
                /\ \A k \in DOMAIN user_limit_state \ {key} :
                       /\ k \notin DOMAIN user_limit_state' <=> Due(user_limit_state[k], now_ms)
                       /\ k \in DOMAIN user_limit_state' =>
                              user_limit_state'[k] = user_limit_state[k]
           ELSE /\ DOMAIN user_limit_state \subseteq DOMAIN user_limit_state'
                /\ next_cleanup_tick' = next_cleanup_tick]_vars

\* a sweep that runs 30 s after the first one has just removed the record of
\* the other user
C37_Witness ==
    /\ last_sweep.ran
    /\ now_ms = 1 + 2 * USERMAP_CLEANUP_INTERVAL_MS
    /\ next_cleanup_tick = now_ms + USERMAP_CLEANUP_INTERVAL_MS
    /\ last_sweep.removed # {}
    /\ DOMAIN user_limit_state = {streams[last_sweep.by].limit_key}

(***************************************************************************)
(* When the consumer flushes, under SpecFlush.                             *)
(***************************************************************************)
\* the step of the consumer loop that calls sendToRedisQos
FlushStep == consumer_pc = "flush" /\ consumer_pc' = "drain"

\* what a call of sendToRedisQos that flushes, or does not, leaves
FlushCadence(due) ==
    /\ last_flush'.flushed <=> due
    /\ ~due => UNCHANGED <<m_qos_redis_commands, m_qos_redis_active_reqs,
                           m_qos_not_send_count, m_last_redis_flush_time>>
    /\ due => /\ m_qos_not_send_count' = 0
              /\ m_last_redis_flush_time' = time_now

\* C38, as claimed: on each iteration of the consumer loop a flush is made if
\* and only if at least metrics_batch_count events are pending or at least
\* metrics_batch_period_msec has elapsed since the last flush; without a
\* flush the maps and the counter stay as they are, and a flush sets the
\* counter to 0 and the last-flush time to now, connected or not.
C38_FlushCadenceAsClaimed ==
    [][FlushStep =>
          FlushCadence(\/ m_qos_not_send_count >= m_processor_batch_count
                       \/ time_now - m_last_redis_flush_time
                              >= m_processor_batch_flush_period)]_vars

\* C38: on each iteration of the consumer loop a flush is made if and only if
\* at least metrics_batch_count events are pending or more than
\* metrics_batch_period_msec has elapsed since the last flush; without a
\* flush the maps and the counter stay as they are, and a flush sets the
\* counter to 0 and the last-flush time to now, connected or not.
C38_FlushCadence ==
    [][FlushStep =>
          FlushCadence(\/ m_qos_not_send_count >= m_processor_batch_count
                       \/ time_now - m_last_redis_flush_time
                              > m_processor_batch_flush_period)]_vars

\* a flush for time alone, of the one data_xfer event pending, was made
\* without a connection to the store
C38_Witness ==
    /\ last_flush.called
    /\ last_flush.flushed
    /\ last_flush.connection_status # "CONNECTED"
    /\ last_flush.active_reqs = kh_init
    /\ \E k \in DOMAIN last_flush.commands :
           DOMAIN last_flush.commands = {k} /\ last_flush.commands[k] = 5
    /\ m_qos_not_send_count = 0
    /\ m_last_redis_flush_time = last_flush.now

(***************************************************************************)
(* Transfers of user u counted at the width of the map's values: data_xfer *)
(* lines of 100 bytes, which is an int, and of 200 bytes, which is an      *)
(* unsigned int but no int.                                                *)
(***************************************************************************)
ExactLines ==
    {DataXferLine(AggField.u, <<49, 48, 48>>), DataXferLine(AggField.u, <<50, 48, 48>>)}

ExactNext ==
    \/ Start
    \/ Consume(ExactLines)
    \/ Timeout
    \/ Flush
    \/ Drain(ConnectCallbacks)
    \/ Tick

SpecExact == Init /\ [][ExactNext]_vars

\* C39: every data_xfer event whose bytes field is a value of an unsigned int
\* is folded into the command map, and the entry of a (user, second,
\* category), which is the delta HINCRBY submits at the next flush, is the
\* exact sum of the increments folded into it: the accumulator neither wraps
\* nor rejects a value.
C39_ExactCounters ==
    /\ \A x \in DOMAIN summed :
           \A k \in EntriesOf(x) : m_qos_redis_commands[k] = summed[x].sum
    /\ (/\ last_event # NoEvent
        /\ last_event.line \in ExactLines
        /\ from_chars(last_event.line[5]).value <= UINT_MAX)
           => last_event.accepted

(***************************************************************************)
(* Transfers of two streams of one connection: s1 (a GET) and s2 (a PUT)   *)
(* of user u1 come from the same ip:port, which set_ip_port_key maps to    *)
(* u1; they are enabled, have their headers filtered, forward chunks of 0  *)
(* and 3 bytes and detach.  No throttle policy is installed.               *)
(***************************************************************************)
TransferAttachCalls ==
    {[s |-> s, remote_addr |-> StreamAddr("s1"), meth |-> IF s = "s1" THEN "GET" ELSE "PUT"] :
        s \in Streams}

TransferEnableCalls ==
    {[s |-> "s1", key |-> "u1", class |-> "GETOBJECT", direction |-> "dwn"],
     [s |-> "s2", key |-> "u1", class |-> "PUTOBJECT", direction |-> "up"]}

TransferPayloadCalls ==
    {[s |-> s, is_request |-> s = "s2", len |-> n,
      current_epoch |-> [sec |-> InstallSec, usec |-> 0]] : s \in Streams, n \in {0, 3}}

TransferSetIpPortKey ==
    /\ bug_on = ""
    /\ get_ip_port_count_from_key(key_ip_port_count_hashmap, "u1") < MaxConns
    /\ set_ip_port_key(StreamAddr("s1").ip, StreamAddr("s1").port, "u1")
    /\ UNCHANGED <<bwVars, enfVars, elVars, aggVars, auxVars>>

TransferNext ==
    \/ Attach(TransferAttachCalls)
    \/ Enable(TransferEnableCalls, MaxActiveRequests)
    \/ Headers(Streams)
    \/ Payload(TransferPayloadCalls)
    \/ Detach(Streams)
    \/ TransferSetIpPortKey

SpecTransfer == Init /\ [][TransferNext]_vars

\* C35: a weir_http_payload call on a stream with an IPv4 source that forwards
\* n > 0 bytes emits exactly one data_xfer event, with the user key of the
\* stream, the direction of the channel and n bytes, and a call that forwards
\* nothing emits no data_xfer event, whatever other streams of the same
\* ip:port did before the call; so the bytes of the events add up to the
\* bytes forwarded.
C35_TransferAccounting ==
    (last_payload.called /\ streams[last_payload.stream].remote_addr # NullAddr) =>
        IF last_payload.bytes_to_forward > 0
        THEN emitted =
                 <<[type |-> "data_xfer",
                    addr |-> streams[last_payload.stream].remote_addr,
                    key |-> streams[last_payload.stream].limit_key,
                    direction |-> direction_name(last_payload.direction),
                    bytes |-> last_payload.bytes_to_forward]>>
        ELSE \A i \in 1..Len(emitted) : emitted[i].type # "data_xfer"

(***************************************************************************)
(* The operations of rate_limit.c and flt_weir.c as the sequences of lock, *)
(* table and heap steps their threads take: rdlock, wrlock and unlock of a *)
(* lock; load reads the map's value into access_key; ifnull n leaves out   *)
(* the next n steps when access_key is NULL; branch n may leave out the    *)
(* next n steps, skip n does; use reads the string access_key points to;   *)
(* strdup allocates key_copy; put swaps key_copy into the map and keeps    *)
(* the old value in p; del takes the map's value into access_key and       *)
(* deletes the entry; free frees the string a local points to.  A thread   *)
(* may be delayed before any lock call, any read of the key string and any *)
(* free, which is where the threads affect each other.                     *)
(***************************************************************************)
get_key_speed_hash_lock(data_direction) ==
    IF data_direction = RL_UPLOAD THEN "key_upload_speed_epoch_hashmap_lck"
    ELSE "key_download_speed_epoch_hashmap_lck"

\* the functions of rate_limit.c, with remove_from_ip_port_key_hash taking the
\* write lock of the direction's policy table inside the ip_port lock
rate_limit_program_nested(op, dir) ==
    LET ip_port_lck == "ip_port_key_hashmap_lck"
        lck == get_key_speed_hash_lock(dir)
        get_key_from_ip_port_steps ==
            <<<<"rdlock", ip_port_lck>>, <<"load">>, <<"unlock", ip_port_lck>>>>
        get_ip_port_count_from_key_steps ==
            <<<<"rdlock", ip_port_lck>>, <<"use", "get_ip_port_count_from_key: kh_get">>,
              <<"unlock", ip_port_lck>>>>
        get_epoch_sec_steps ==
            get_key_from_ip_port_steps
                \o <<<<"ifnull", 8>>, <<"use", "get_epoch_sec: strlen">>, <<"rdlock", lck>>,
                     <<"use", "get_epoch_sec: kh_get">>, <<"branch", 3>>>>
                \o get_ip_port_count_from_key_steps
                \o <<<<"unlock", lck>>>>
    IN  CASE op = "rl_speed_throttle" ->
                 get_epoch_sec_steps
                     \o <<<<"use", "rl_speed_throttle: send_log">>, <<"branch", 2>>,
                          <<"use", "rl_speed_throttle: send_log">>, <<"skip", 6>>>>
          [] op = "rl_data_transferred" ->
                 get_key_from_ip_port_steps
                     \o <<<<"ifnull", 2>>, <<"use", "rl_data_transferred: strlen">>,
                          <<"use", "rl_data_transferred: send_log">>>>
          [] op = "set_ip_port_key" ->
                 <<<<"strdup">>, <<"wrlock", ip_port_lck>>, <<"put">>,
                   <<"unlock", ip_port_lck>>, <<"free", "p">>>>
          [] op = "rl_request_end" ->
                 <<<<"wrlock", ip_port_lck>>, <<"del">>, <<"wrlock", lck>>, <<"unlock", lck>>,
                   <<"unlock", ip_port_lck>>, <<"free", "access_key">>>>
          [] op \in {"set_throttle_epoch_us", "remove_old_epochs"} ->
                 <<<<"wrlock", lck>>, <<"unlock", lck>>>>

\* the functions of rate_limit.c
rate_limit_program(op, dir) ==
    LET ip_port_lck == "ip_port_key_hashmap_lck"
        lck == get_key_speed_hash_lock(dir)
        get_key_from_ip_port_steps ==
            <<<<"rdlock", ip_port_lck>>, <<"load">>, <<"unlock", ip_port_lck>>>>
        get_ip_port_count_from_key_steps ==
            <<<<"rdlock", ip_port_lck>>, <<"use", "get_ip_port_count_from_key: kh_get">>,
              <<"unlock", ip_port_lck>>>>
        get_epoch_sec_steps ==
            get_key_from_ip_port_steps
                \o <<<<"ifnull", 8>>, <<"use", "get_epoch_sec: strlen">>, <<"rdlock", lck>>,
                     <<"use", "get_epoch_sec: kh_get">>, <<"branch", 3>>>>
                \o get_ip_port_count_from_key_steps
                \o <<<<"unlock", lck>>>>
    IN  CASE op = "rl_speed_throttle" ->
                 get_epoch_sec_steps
                     \o <<<<"use", "rl_speed_throttle: send_log">>, <<"branch", 2>>,
                          <<"use", "rl_speed_throttle: send_log">>, <<"skip", 6>>>>
          [] op = "rl_data_transferred" ->
                 get_key_from_ip_port_steps
                     \o <<<<"ifnull", 2>>, <<"use", "rl_data_transferred: strlen">>,
                          <<"use", "rl_data_transferred: send_log">>>>
          [] op = "set_ip_port_key" ->
                 <<<<"strdup">>, <<"wrlock", ip_port_lck>>, <<"put">>,
                   <<"unlock", ip_port_lck>>, <<"free", "p">>>>
          [] op = "rl_request_end" ->
                 <<<<"wrlock", ip_port_lck>>, <<"del">>, <<"unlock", ip_port_lck>>,
                   <<"free", "access_key">>>>
          [] op \in {"set_throttle_epoch_us", "remove_old_epochs"} ->
                 <<<<"wrlock", lck>>, <<"unlock", lck>>>>

\* the callbacks and tasks of flt_weir.c: their critical sections of
\* state_lock, and the functions of rate_limit.c they call
flt_weir_program(op, dir) ==
    LET rdlocked == <<<<"rdlock", "state_lock">>, <<"unlock", "state_lock">>>>
        wrlocked == <<<<"wrlock", "state_lock">>, <<"unlock", "state_lock">>>>
    IN  CASE op \in {"weir_enable_filter", "weir_ingest_limit_share_update"} -> wrlocked
          [] op \in {"weir_http_headers", "emit_active_request_refresh",
                     "cli_show_weir_limits"} -> rdlocked
          [] op = "weir_http_payload" ->
                 rate_limit_program("rl_speed_throttle", dir)
                     \o rate_limit_program("rl_data_transferred", dir)
          [] op = "weir_detach" -> wrlocked \o rate_limit_program("rl_request_end", dir)
          [] OTHER -> rate_limit_program(op, dir)

\* the operations a worker thread may be given
Operations ==
    {"weir_enable_filter", "weir_ingest_limit_share_update", "weir_http_headers",
     "emit_active_request_refresh", "cli_show_weir_limits", "weir_http_payload",
     "weir_detach", "set_ip_port_key", "rl_request_end", "set_throttle_epoch_us"}

\* the addresses malloc may hand out in m: no live string is there and no
\* thread holds a pointer to it
Fresh(m) ==
    {a \in KeyAddrs :
        /\ a \notin m.live
        /\ a # m.map
        /\ \A t \in DOMAIN m.th :
               a \notin {m.th[t].access_key, m.th[t].key_copy, m.th[t].p}}

\* pthread_rwlock_rdlock and HA_RWLOCK_RDLOCK return: no writer holds the
\* lock (a lock that prefers writers also makes the reader wait for them)
CanRead(l, prefers_writers) ==
    mt.lock[l].writer = "" /\ (prefers_writers => mt.lock[l].waiting = {})

\* pthread_rwlock_wrlock and HA_RWLOCK_WRLOCK return: nobody holds the lock
CanWrite(l) == mt.lock[l].writer = "" /\ mt.lock[l].readers = {}

\* the next step of thread t can be taken
CanStep(t, prefers_writers) ==
    LET ins == Head(mt.th[t].prog)
    IN  /\ mt.th[t].prog # <<>>
        /\ ins[1] = "rdlock" => CanRead(ins[2], prefers_writers)
        /\ ins[1] = "wrlock" => CanWrite(ins[2]) \/ t \notin mt.lock[ins[2]].waiting

\* thread t of m goes on to its next lock call, read of the key string or
\* free, or to the end of its operation, where its locals go: the steps in
\* between are on its locals, or on the map while it holds the map's lock
RECURSIVE Run(_, _)
Run(m, t) ==
    LET th == m.th[t]
        ins == Head(th.prog)
        rest == Tail(th.prog)
        after(n) == SubSeq(rest, n + 1, Len(rest))
        to(prog) == [m EXCEPT !.th[t].prog = prog]
    IN  IF th.prog = <<>> THEN {[m EXCEPT !.th[t] = IdleThread]}
        ELSE CASE ins[1] = "load" -> Run([to(rest) EXCEPT !.th[t].access_key = m.map], t)
               [] ins[1] = "ifnull" ->
                      Run(to(IF th.access_key = 0 THEN after(ins[2]) ELSE rest), t)
               [] ins[1] = "branch" -> Run(to(rest), t) \cup Run(to(after(ins[2])), t)
               [] ins[1] = "skip" -> Run(to(after(ins[2])), t)
               [] ins[1] = "strdup" ->
                      IF Fresh(m) = {} THEN Run(to(<<>>), t)
                      ELSE LET a == CHOOSE a \in Fresh(m) : \A b \in Fresh(m) : a <= b
                           IN  Run([to(rest) EXCEPT !.th[t].key_copy = a,
                                                    !.live = @ \cup {a}], t)
               [] ins[1] = "put" ->
                      Run([to(rest) EXCEPT !.th[t].p = m.map, !.map = th.key_copy], t)
               [] ins[1] = "del" ->
                      Run([to(rest) EXCEPT !.th[t].access_key = m.map, !.map = 0], t)
               [] OTHER -> {m}

\* thread t takes its next lock call, read of the key string or free
Execute(t) ==
    LET th == mt.th[t]
        ins == Head(th.prog)
        next == [mt EXCEPT !.th[t].prog = Tail(th.prog)]
        without(locks, l) == SelectSeq(locks, LAMBDA x : x # l)
    IN  /\ CanStep(t, FALSE)
        /\ CASE ins[1] = "rdlock" ->
                    mt' \in Run([next EXCEPT !.th[t].held = Append(@, ins[2]),
                                            !.lock[ins[2]].readers = @ \cup {t}], t)
             [] ins[1] = "wrlock" ->
                    IF CanWrite(ins[2])
                    THEN mt' \in Run([next EXCEPT !.th[t].held = Append(@, ins[2]),
                                                 !.lock[ins[2]].writer = t,
                                                 !.lock[ins[2]].waiting = @ \ {t}], t)
                    ELSE mt' = [mt EXCEPT !.lock[ins[2]].waiting = @ \cup {t}]
             [] ins[1] = "unlock" ->
                    mt' \in Run([next EXCEPT !.th[t].held = without(@, ins[2]),
                                            !.lock[ins[2]].writer = IF @ = t THEN "" ELSE @,
                                            !.lock[ins[2]].readers = @ \ {t}], t)
             [] ins[1] = "use" ->
                    mt' \in Run([next EXCEPT !.freed_read =
                                     @ \/ (th.access_key # 0 /\ th.access_key \notin mt.live)],
                                t)
             [] ins[1] = "free" -> mt' \in Run([next EXCEPT !.live = @ \ {th[ins[2]]}], t)

(***************************************************************************)
(* Two worker threads run the callbacks, the tasks and the calls of the    *)
(* Lua script in any order and at any pace, next to the policy sweeper.    *)
(***************************************************************************)
TablesBegin ==
    \E t \in Workers, op \in Operations, dir \in DataDirection :
        /\ mt.th[t].prog = <<>>
        /\ mt' \in Run([mt EXCEPT !.th[t].prog = flt_weir_program(op, dir)], t)
        /\ UNCHANGED <<thrVars, bwVars, enfVars, elVars, aggVars, split, dump, receiver,
                       threads, rsc, net>>

TablesSweep ==
    /\ mt.th[Sweeper].prog = <<>>
    /\ mt' = [mt EXCEPT !.th[Sweeper].prog = rate_limit_program("remove_old_epochs", mt.dir),
                        !.dir = IF @ = RL_DOWNLOAD THEN RL_UPLOAD ELSE RL_DOWNLOAD]
    /\ UNCHANGED <<thrVars, bwVars, enfVars, elVars, aggVars, split, dump, receiver,
                   threads, rsc, net>>

TablesStep ==
    \E t \in DOMAIN mt.th :
        /\ Execute(t)
        /\ UNCHANGED <<thrVars, bwVars, enfVars, elVars, aggVars, split, dump, receiver,
                       threads, rsc, net>>

TablesNext == TablesBegin \/ TablesSweep \/ TablesStep

SpecTables == Init /\ [][TablesNext]_vars

\* C32: whatever the interleaving, the key string that rl_speed_throttle or
\* rl_data_transferred got from the ip_port map is never read (by strlen, by
\* the lookups of the policy and of the connection count, by the event line)
\* after set_ip_port_key or rl_request_end on the same ip:port has freed it.
C32_NoUseOfFreedKey == ~mt.freed_read

\* thread t has called for a lock that it cannot get now, be the lock one
\* that lets readers pass waiting writers or one that does not
Blocked(t) == mt.th[t].prog # <<>> /\ ~CanStep(t, TRUE)

\* the threads that must move before the blocked thread t gets its lock:
\* those that hold it and, for a reader, the writers waiting for it
Blockers(t) ==
    LET ins == Head(mt.th[t].prog)
        l == mt.lock[ins[2]]
    IN  ({l.writer} \ {""}) \cup l.readers
            \cup (IF ins[1] = "rdlock" THEN l.waiting ELSE {})

\* the threads of S wait on each other forever
Deadlocked(S) == S # {} /\ \A t \in S : Blocked(t) /\ Blockers(t) \cap S # {}

\* the locks a thread may hold together, in the order it took them: the
\* ip_port lock inside a direction's policy lock, state_lock alone
LockOrders ==
    LET ip_port_lck == "ip_port_key_hashmap_lck"
    IN  {<<>>, <<ip_port_lck>>, <<"state_lock">>}
            \cup UNION {{<<get_key_speed_hash_lock(dir)>>,
                          <<get_key_speed_hash_lock(dir), ip_port_lck>>} :
                             dir \in DataDirection}

\* C40: no interleaving of the enforcer's callbacks and tasks, the calls of
\* the Lua script and the policy sweeper reaches a state where some threads
\* wait on each other forever, and every thread takes its locks in one
\* order: the ip_port lock only inside a direction's policy lock or alone,
\* and nothing while it holds state_lock (nor state_lock inside another).
C40_DeadlockFreedom ==
    /\ \A S \in SUBSET DOMAIN mt.th : ~Deadlocked(S)
    /\ \A t \in DOMAIN mt.th :
           LET th == mt.th[t]
           IN  /\ th.held \in LockOrders
               /\ th.prog # <<>> /\ Head(th.prog)[1] \in {"rdlock", "wrlock"}
                      => Append(th.held, Head(th.prog)[2]) \in LockOrders

\* a worker holds a policy lock shared and waits for the ip_port lock that
\* the other worker holds exclusive, while the sweeper waits for the policy
\* lock
C40_Witness ==
    \E t \in Workers, dir \in DataDirection :
        LET th == mt.th[t]
            ip_port_lck == mt.lock["ip_port_key_hashmap_lck"]
        IN  /\ th.held = <<get_key_speed_hash_lock(dir)>>
            /\ th.prog # <<>>
            /\ Head(th.prog) = <<"rdlock", "ip_port_key_hashmap_lck">>
            /\ ip_port_lck.writer \in Workers \ {t}
            /\ Sweeper \in mt.lock[get_key_speed_hash_lock(dir)].waiting

====
